---- MODULE Spec2Model ----
(***************************************************************************)
(* State-machine model of the rstflow pipeline stages (src/rstflow/src):   *)
(*   flatten_trees   (flatten_rst.py)                                      *)
(*   cluster_nuclei  (cluster_nucleus.py)                                  *)
(*   attach_satellites (attach_satellites.py)                              *)
(*   embed_edus      (embed.py)                                            *)
(*   aggregate_clusters (aggregate.py)                                     *)
(*   parse_corpus    (rst_parse.py)                                        *)
(*   the embed command (cli.py)                                            *)
(* Every stage is a batch function over artifacts read from files.  Each   *)
(* stage has its own specification: Init draws the input artifacts from    *)
(* bounded sets, the actions are the loop iterations, the raises and the   *)
(* final write of the stage.  SpecPipeline chains the stages from the      *)
(* parsed trees to the snapshot, each stage reading the files of the one   *)
(* before it, and runs the chain a second time over the files left.        *)
(*                                                                         *)
(* Records keep the fields the stages decide on or key by (doc_id, edu_id,  *)
(* nuclearity, relation, parent_edu_id, is_root, index, attachment, score,  *)
(* cluster_id, size, centroid, members, satellites); topic_id and span are  *)
(* copied through unchanged and are left out, and so is text except in the *)
(* stages that read it (embed_edus, aggregate_clusters).                   *)
(*                                                                         *)
(* Numbers.  Embedding coordinates are small integers.  A similarity is    *)
(* kept exactly as the record [dot, nc2, ns2] that stands for the real     *)
(* dot / sqrt(nc2 * ns2); float32 rounding is not modelled.                *)
(***************************************************************************)
EXTENDS Integers, Sequences, FiniteSets, TLC

VARIABLES
    \* ---- flatten_trees
    parsed_docs,        \* read_jsonl(input_path): the parsed trees, one per document
    rows,               \* the local list `rows`
    fl_doc,             \* number of documents the outer loop has finished
    fl_pc,              \* "off" | "loop" | "done" | "error"
    edus_file,          \* the file at output_path: NoFile or the rows written
    \* ---- cluster_nuclei
    vectors_shape,      \* shape of nucleus.npy: <<rows, dimension>>
    nucleus_meta,       \* metadata["nucleus"]: the nucleus descriptors of the index
    k,                  \* requested cluster count
    labels,             \* model.fit_predict(vectors)
    centroid_vectors,   \* model.cluster_centers_
    cl_clusters,        \* the local list `clusters` being built
    cl_pc,              \* "off" | "check" | "build" | "done" | "error"
    cl_error,           \* message of the ValueError raised, or NoneVal
    clusters_file,      \* the file at output_path: NoFile or the payload written
    \* ---- attach_satellites
    index_satellite,    \* index["satellite"]: the satellite descriptors
    satellite_vectors,  \* satellite.npy, row i belongs to descriptor i
    clusters_in,        \* clusters_payload["clusters"] as stored in the input file
    clusters,           \* the in-memory list `clusters` (satellites get appended)
    metric,             \* "cosine" | "dot"
    assignments,        \* the local list `assignments`
    idx,                \* number of satellites the loop has finished
    at_pc,              \* "off" | "loop" | "done" | "error"
    at_error,           \* message of the ValueError raised, or NoneVal
    attach_file,        \* the file at output_path: NoFile or the payload written
    \* ---- embed_edus
    embed_rows,         \* read_jsonl(input_path): the flat EDU table
    embedder_dim,       \* vector dimension of the embedder in use
    nuclei,             \* the local list `nuclei`
    satellites,         \* the local list `satellites`
    nucleus_vectors,    \* the local matrix `nucleus_vectors`
    em_satellite_vectors, \* the local matrix `satellite_vectors`
    dimension,          \* the local `dimension`
    encode_calls,       \* the batches embedder.encode was called with, in order
    nucleus_npy,        \* the file nucleus.npy: NoFile or the matrix saved
    satellite_npy,      \* the file satellite.npy: NoFile or the matrix saved
    index_file,         \* the file index.jsonl: NoFile or the payload written
    em_pc,              \* "off" | "partition" | "encode_nucleus" | "encode_satellite"
                        \* | "save_nucleus" | "save_satellite" | "write_index" | "done" | "error"
    \* ---- aggregate_clusters
    agg_flat,           \* read_jsonl(flattened_path): the flat EDU table
    agg_clusters_in,    \* clusters_payload["clusters"]
    aggregated_clusters, \* the local list `aggregated_clusters`
    agg_idx,            \* number of clusters the loop has finished
    agg_pc,             \* "off" | "loop" | "done"
    snapshot_file,       \* the file at output_path: NoFile or the payload written
    \* ---- parse_corpus
    documents,          \* read_jsonl(input_path): the raw documents
    parser_name,        \* getattr(parser, "name", ...)
    pr_rows,            \* the local list `rows`
    pr_idx,             \* number of documents the loop has finished
    pr_pc,              \* "off" | "loop" | "done" | "error"
    pr_error,           \* the exception raised, or NoParseError
    rst_file,            \* the file at output_path: NoFile or the rows written
    \* ---- embed_cli
    cli_model,          \* the --model option
    st_loads,           \* model names SentenceTransformer(...) was constructed with
    cli_pc,             \* "off" | "invoked" | "exited"
    exit_code,           \* exit code of the command once it has exited
    \* ---- a run of the whole pipeline (flatten, embed, cluster, attach, aggregate)
    edu_text,           \* text of each EDU of the parsed documents, by (doc_id, edu_id)
    pipe_k,             \* the --k option of the cluster command
    pipe_metric,        \* the --metric option of the attach command
    run_no,             \* 0: no pipeline run; 1: first run; 2: the rerun on the same inputs
    pipe_seed,          \* the --seed option of the cluster command of this run
    sklearn_kmeans,     \* the library's KMeans, as far as it has been called: one
                        \* record [vectors, n_clusters, random_state, fit] per call
                        \* with new arguments
    first_run           \* seed and artifacts of the first run: <<>> or <<record>>

flattenVars == <<parsed_docs, rows, fl_doc, fl_pc, edus_file>>
clusterVars == <<vectors_shape, nucleus_meta, k, labels, centroid_vectors,
                 cl_clusters, cl_pc, cl_error, clusters_file>>
attachVars  == <<index_satellite, satellite_vectors, clusters_in, clusters, metric,
                 assignments, idx, at_pc, at_error, attach_file>>
embedVars   == <<embed_rows, embedder_dim, nuclei, satellites, nucleus_vectors,
                 em_satellite_vectors, dimension, encode_calls, nucleus_npy,
                 satellite_npy, index_file, em_pc>>
aggregateVars == <<agg_flat, agg_clusters_in, aggregated_clusters, agg_idx, agg_pc,
                   snapshot_file>>
parseVars == <<documents, parser_name, pr_rows, pr_idx, pr_pc, pr_error, rst_file>>
cliVars == <<cli_model, st_loads, cli_pc, exit_code>>
pipelineVars == <<edu_text, pipe_k, pipe_metric, pipe_seed, run_no, sklearn_kmeans,
                  first_run>>
vars == <<flattenVars, clusterVars, attachVars, embedVars, aggregateVars, parseVars, cliVars, pipelineVars>>

\* A stage touches no variable of the other stages.
ClusterFrame == UNCHANGED <<flattenVars, attachVars, embedVars, aggregateVars, parseVars, cliVars, pipelineVars>>
AttachFrame  == UNCHANGED <<flattenVars, clusterVars, embedVars, aggregateVars, parseVars, cliVars, pipelineVars>>
FlattenFrame == UNCHANGED <<clusterVars, attachVars, embedVars, aggregateVars, parseVars, cliVars, pipelineVars>>
EmbedFrame   == UNCHANGED <<flattenVars, clusterVars, attachVars, aggregateVars, parseVars, cliVars, pipelineVars>>
AggregateFrame == UNCHANGED <<flattenVars, clusterVars, attachVars, embedVars, parseVars, cliVars, pipelineVars>>
ParseFrame == UNCHANGED <<flattenVars, clusterVars, attachVars, embedVars, aggregateVars, cliVars, pipelineVars>>
\* The embed command runs embed_edus: it touches the embed variables too.
CliFrame == UNCHANGED <<flattenVars, clusterVars, attachVars, aggregateVars, parseVars, pipelineVars>>

\* Python's None, and a file that does not exist.
\* A file is <<>> while it does not exist and <<content>> once written.
NoneVal == "None"
NoFile  == <<>>

\* ------------------------------------------------------------------ bounds
MaxNuclei     == 2      \* nucleus rows in an embedding index
MaxSatellites == 2      \* satellite rows in an embedding index
MaxEdus       == 2      \* EDUs in one parsed tree
MaxRows       == 3      \* rows of the flat table embed_edus reads
MaxClusters   == 3      \* clusters of the payload aggregate_clusters reads
MaxDocs       == 2      \* raw documents parse_corpus reads

\* ------------------------------------------------------------- value sets
EduIds  == {"e1", "e2"}

\* Sequences over S of length lo..hi.
SeqsOf(S, lo, hi) == UNION {[1..n -> S] : n \in lo..hi}

\* Python truthiness of an Optional[str]: None and "" are falsy.
Truthy(s) == s \notin {NoneVal, ""}

RECURSIVE SumSeq(_)
SumSeq(s) == IF s = <<>> THEN 0 ELSE Head(s) + SumSeq(Tail(s))

\* ================================================================ cluster_nuclei

\* Coordinates KMeans may return for a cluster centre.
CentroidVecs == {<<0, 0>>, <<3, 0>>, <<1, 1>>}

\* Nucleus descriptors an index can hold (doc_id, edu_id, is_root); EDU ids are
\* unique only within a document.
NucleusMetas ==
    { [doc_id |-> "d1", edu_id |-> "e1", is_root |-> TRUE],
      [doc_id |-> "d2", edu_id |-> "e1", is_root |-> TRUE],
      [doc_id |-> "d1", edu_id |-> "e2", is_root |-> FALSE] }

\* vectors.size and len(vectors) of the nucleus matrix.
VectorsSize(shape) == shape[1] * shape[2]
VectorsLen(shape)  == shape[1]

\* sklearn's KMeans(n_clusters = kk).fit_predict on n rows: one label in
\* 0..kk-1 per row and kk centres.  The library is outside the repository; the
\* model admits every labelling, also one that leaves a cluster empty.
KMeansFits(n, kk) ==
    { [labels |-> l, centers |-> c] : l \in [1..n -> 0..kk-1], c \in [1..kk -> CentroidVecs] }

\* np.where(labels == cluster_id)[0]: the 0-based row indices, ascending.
MemberIndicesUpTo(lbl, cluster_id) ==
    LET pos == SelectSeq([i \in 1..Len(lbl) |-> i], LAMBDA i : lbl[i] <= cluster_id)
    IN  [j \in 1..Len(pos) |-> pos[j] - 1]
MemberIndices(lbl, cluster_id) ==
    LET pos == SelectSeq([i \in 1..Len(lbl) |-> i], LAMBDA i : lbl[i] = cluster_id)
    IN  [j \in 1..Len(pos) |-> pos[j] - 1]

\* One member record per member index (lines 62-74).
Members(meta, member_indices) ==
    [j \in 1..Len(member_indices) |->
        [index   |-> member_indices[j],
         doc_id  |-> meta[member_indices[j] + 1].doc_id,
         edu_id  |-> meta[member_indices[j] + 1].edu_id,
         relation |-> IF "relation" \in DOMAIN meta[member_indices[j] + 1]
                      THEN meta[member_indices[j] + 1].relation
                      ELSE NoneVal,          \* nucleus_meta.get("relation")
         is_root |-> meta[member_indices[j] + 1].is_root]]

\* The cluster record appended for cluster_id (lines 59-82).
ClusterRecordFromOne(meta, lbl, centers, cluster_id) ==
    LET member_indices == MemberIndices(lbl, cluster_id)
    IN  [cluster_id |-> cluster_id + 1,
         size       |-> Len(member_indices),
         centroid   |-> centers[cluster_id + 1],
         members    |-> Members(meta, member_indices)]
ClusterRecord(meta, lbl, centers, cluster_id) ==
    LET member_indices == MemberIndices(lbl, cluster_id)
    IN  [cluster_id |-> cluster_id,
         size       |-> Len(member_indices),
         centroid   |-> centers[cluster_id + 1],
         members    |-> Members(meta, member_indices)]

\* The whole list built by `for cluster_id in range(k)`.
BuildClusters(meta, lbl, centers, kk) ==
    [c \in 1..kk |-> ClusterRecord(meta, lbl, centers, c - 1)]

\* The payload written to output_path (lines 84-100).
ClusterPayload(cl, kk, shape) ==
    [counts |-> [clusters |-> kk, nucleus |-> VectorsLen(shape)], clusters |-> cl]

ClusterRaise(msg) ==
    /\ cl_pc' = "error"
    /\ cl_error' = msg
    /\ UNCHANGED <<vectors_shape, nucleus_meta, k, labels, centroid_vectors,
                   cl_clusters, clusters_file>>

\* line 41-42
ClusterRejectEmpty ==
    /\ ClusterFrame
    /\ cl_pc = "check"
    /\ VectorsSize(vectors_shape) = 0
    /\ ClusterRaise("No nucleus embeddings available to cluster.")

\* line 43-44
ClusterRejectNonPositive ==
    /\ ClusterFrame
    /\ cl_pc = "check"
    /\ VectorsSize(vectors_shape) # 0
    /\ k <= 0
    /\ ClusterRaise("k must be greater than zero.")

\* line 45-46
ClusterExceedsUnchecked ==
    /\ ClusterFrame
    /\ cl_pc = "check"
    /\ VectorsSize(vectors_shape) # 0
    /\ k > 0
    /\ k > VectorsLen(vectors_shape)
    /\ \E fit \in KMeansFits(VectorsLen(vectors_shape), k) :
          /\ labels' = fit.labels
          /\ centroid_vectors' = fit.centers
    /\ cl_clusters' = <<>>
    /\ cl_pc' = "build"
    /\ UNCHANGED <<vectors_shape, nucleus_meta, k, cl_error, clusters_file>>
ClusterRejectExceeds ==
    /\ ClusterFrame
    /\ cl_pc = "check"
    /\ VectorsSize(vectors_shape) # 0
    /\ k > 0
    /\ k > VectorsLen(vectors_shape)
    /\ ClusterRaise("k exceeds number of nuclei")   \* f"k={k} exceeds number of nuclei (...)."

\* lines 48-56: the checks passed, KMeans runs.
ClusterFit ==
    /\ ClusterFrame
    /\ cl_pc = "check"
    /\ VectorsSize(vectors_shape) # 0
    /\ k > 0
    /\ k <= VectorsLen(vectors_shape)
    /\ \E fit \in KMeansFits(VectorsLen(vectors_shape), k) :
          /\ labels' = fit.labels
          /\ centroid_vectors' = fit.centers
    /\ cl_clusters' = <<>>
    /\ cl_pc' = "build"
    /\ UNCHANGED <<vectors_shape, nucleus_meta, k, cl_error, clusters_file>>

\* lines 58-82: one iteration of `for cluster_id in range(k)`.
ClusterAppend ==
    /\ ClusterFrame
    /\ cl_pc = "build"
    /\ Len(cl_clusters) < k
    /\ cl_clusters' = Append(cl_clusters,
                             ClusterRecord(nucleus_meta, labels, centroid_vectors,
                                           Len(cl_clusters)))
    /\ UNCHANGED <<vectors_shape, nucleus_meta, k, labels, centroid_vectors,
                   cl_pc, cl_error, clusters_file>>

\* lines 84-104: the loop is over, the payload is written.
ClusterWrite ==
    /\ ClusterFrame
    /\ cl_pc = "build"
    /\ Len(cl_clusters) >= k
    /\ clusters_file' = <<ClusterPayload(cl_clusters, k, vectors_shape)>>
    /\ cl_pc' = "done"
    /\ UNCHANGED <<vectors_shape, nucleus_meta, k, labels, centroid_vectors,
                   cl_clusters, cl_error>>

ClusterNext ==
    \/ ClusterRejectEmpty
    \/ ClusterRejectNonPositive
    \/ ClusterRejectExceeds
    \/ ClusterFit
    \/ ClusterAppend
    \/ ClusterWrite

\* ============================================================ attach_satellites

\* Rows satellite.npy may hold.
SatelliteVecs == {<<1, 1>>, <<-1, 0>>}

\* parent_edu_id values of a satellite descriptor: absent, empty, or an id
\* ("e2" may or may not be a clustered nucleus, depending on the payload).
ParentIds == {NoneVal, "", "e1", "e2"}

\* (doc_id, edu_id) of the i-th satellite row of the index.
SatelliteKeys ==
    << [doc_id |-> "d1", edu_id |-> "s1"], [doc_id |-> "d2", edu_id |-> "s2"],
       [doc_id |-> "d1", edu_id |-> "s3"], [doc_id |-> "d2", edu_id |-> "s4"] >>

RECURSIVE Dot(_, _)
Dot(u, v) == IF u = <<>> THEN 0 ELSE Head(u) * Head(v) + Dot(Tail(u), Tail(v))

\* _normalize_matrix (lines 29-34): every row divided by its norm, a zero norm
\* replaced by 1.  A row is kept as [v, n2], standing for v / sqrt(n2).
NormalizeMatrix(matrix) ==
    [i \in 1..Len(matrix) |->
        [v  |-> matrix[i],
         n2 |-> IF Dot(matrix[i], matrix[i]) = 0 THEN 1 ELSE Dot(matrix[i], matrix[i])]]

\* A matrix used as it is (metric "dot").
RawMatrix(matrix) == [i \in 1..Len(matrix) |-> [v |-> matrix[i], n2 |-> 1]]

\* lines 58-61
Scaled(matrix, m) == IF m = "cosine" THEN NormalizeMatrix(matrix) ELSE RawMatrix(matrix)

\* centroids = np.asarray([cluster["centroid"] ...]) after line 58-60.
Centroids(cl, m) == Scaled([i \in 1..Len(cl) |-> cl[i].centroid], m)

\* centroids.size
CentroidsSize(cl) == IF cl = <<>> THEN 0 ELSE Len(cl) * Len(cl[1].centroid)

\* One entry of `centroids @ vector`: the real  dot / sqrt(nc2 * ns2).
Similarity(c, s) == [dot |-> Dot(c.v, s.v), nc2 |-> c.n2, ns2 |-> s.n2]

\* a <= b on the reals that two similarities stand for.
SimLeq(a, b) ==
    LET x == a.dot
        y == b.dot
        A == a.nc2 * a.ns2
        B == b.nc2 * b.ns2
    IN  IF x <= 0 /\ y >= 0 THEN TRUE
        ELSE IF x >= 0 /\ y <= 0 THEN FALSE
        ELSE IF x > 0 THEN x * x * B <= y * y * A
        ELSE x * x * B >= y * y * A

\* scores = centroids @ vector (line 74)
Scores(cents, s) == [i \in 1..Len(cents) |-> Similarity(cents[i], s)]

\* np.argmax(scores): the 0-based position of the first maximum.
ArgMaxLast(scores) ==
    (CHOOSE i \in 1..Len(scores) :
        /\ \A j \in 1..Len(scores) : SimLeq(scores[j], scores[i])
        /\ \A j \in (i+1)..Len(scores) : ~SimLeq(scores[i], scores[j])) - 1
ArgMin(scores) ==
    (CHOOSE i \in 1..Len(scores) :
        /\ \A j \in 1..Len(scores) : SimLeq(scores[i], scores[j])
        /\ \A j \in 1..(i-1) : ~SimLeq(scores[j], scores[i])) - 1
ArgMax(scores) ==
    (CHOOSE i \in 1..Len(scores) :
        /\ \A j \in 1..Len(scores) : SimLeq(scores[j], scores[i])
        /\ \A j \in 1..(i-1) : ~SimLeq(scores[i], scores[j])) - 1

\* nucleus_to_cluster (lines 52-55): keyed by edu_id alone; a later cluster
\* overwrites the entry of an earlier one.
InNucleusToClusterFirstMember(cl, edu_id) ==
    \E i \in 1..Len(cl) : cl[i].members # <<>> /\ cl[i].members[1].edu_id = edu_id
InNucleusToCluster(cl, edu_id) ==
    \E i \in 1..Len(cl) : \E j \in 1..Len(cl[i].members) : cl[i].members[j].edu_id = edu_id

NucleusToCluster(cl, edu_id) ==
    LET holders == {i \in 1..Len(cl) :
                      \E j \in 1..Len(cl[i].members) : cl[i].members[j].edu_id = edu_id}
        last == CHOOSE i \in holders : \A h \in holders : h <= i
    IN  cl[last].cluster_id

\* cluster_map (line 50): list position of the cluster stored under an id (the
\* last one, should ids repeat); 0 when the id is no key of the dict.
ClusterMapFirst(cl, cluster_id) == IF cl = <<>> THEN 0 ELSE 1
ClusterMapPos(cl, cluster_id) ==
    LET holders == {i \in 1..Len(cl) : cl[i].cluster_id = cluster_id}
    IN  IF holders = {} THEN 0 ELSE CHOOSE i \in holders : \A h \in holders : h <= i

\* cluster.setdefault("satellites", []) for every cluster (line 56).
SetDefaultSatellites(cl) ==
    [i \in 1..Len(cl) |->
        IF "satellites" \in DOMAIN cl[i] THEN cl[i]
        ELSE [cluster_id |-> cl[i].cluster_id, size |-> cl[i].size,
              centroid |-> cl[i].centroid, members |-> cl[i].members,
              satellites |-> <<>>]]

\* The test of line 66.
ParentResolves(cl, parent_id) == Truthy(parent_id) /\ InNucleusToCluster(cl, parent_id)

\* score of the parent branch: None.
NoScore == [present |-> FALSE, value |-> [dot |-> 0, nc2 |-> 1, ns2 |-> 1]]

\* The enriched record of lines 79-91.
EnrichedRecordParentAsId(i, sat_meta, attachment, score, cluster_id) ==
    [index         |-> i,
     doc_id        |-> sat_meta.doc_id,
     edu_id        |-> sat_meta.parent_edu_id,
     parent_edu_id |-> sat_meta.parent_edu_id,
     relation      |-> sat_meta.relation,
     attachment    |-> attachment,
     score         |-> score,
     cluster_id    |-> cluster_id]
EnrichedRecord(i, sat_meta, attachment, score, cluster_id) ==
    [index         |-> i,
     doc_id        |-> sat_meta.doc_id,
     edu_id        |-> sat_meta.edu_id,
     parent_edu_id |-> sat_meta.parent_edu_id,
     relation      |-> sat_meta.relation,
     attachment    |-> attachment,
     score         |-> score,
     cluster_id    |-> cluster_id]

\* The same append, with the cluster's size counting the satellite too.
AppendRecordCountingSize(rec) ==
    LET pos == ClusterMapPos(clusters, rec.cluster_id)
    IN  /\ pos # 0
        /\ clusters' = [clusters EXCEPT ![pos].satellites = Append(@, rec),
                                        ![pos].size = @ + 1]
        /\ assignments' = Append(assignments, rec)
        /\ idx' = idx + 1
        /\ UNCHANGED <<index_satellite, satellite_vectors, clusters_in, metric,
                       at_pc, at_error, attach_file>>

\* lines 92-93: append to the cluster found through cluster_map, and to assignments.
AppendRecord(rec) ==
    LET pos == ClusterMapPos(clusters, rec.cluster_id)
    IN  /\ pos # 0                      \* otherwise KeyError
        /\ clusters' = [clusters EXCEPT ![pos].satellites = Append(@, rec)]
        /\ assignments' = Append(assignments, rec)
        /\ idx' = idx + 1
        /\ UNCHANGED <<index_satellite, satellite_vectors, clusters_in, metric,
                       at_pc, at_error, attach_file>>

\* lines 66-69: the parent branch of one loop iteration.
AttachParent ==
    /\ AttachFrame
    /\ at_pc = "loop"
    /\ idx < Len(index_satellite)
    /\ LET sat_meta == index_satellite[idx + 1]
       IN  /\ ParentResolves(clusters, sat_meta.parent_edu_id)
           /\ AppendRecord(EnrichedRecord(idx, sat_meta, "parent", NoScore,
                               NucleusToCluster(clusters, sat_meta.parent_edu_id)))

\* lines 70-77: the nearest-centroid branch of one loop iteration.
AttachNearest ==
    /\ AttachFrame
    /\ at_pc = "loop"
    /\ idx < Len(index_satellite)
    /\ LET sat_meta == index_satellite[idx + 1]
           vector   == Scaled(satellite_vectors, metric)[idx + 1]
           scores   == Scores(Centroids(clusters, metric), vector)
       IN  /\ ~ParentResolves(clusters, sat_meta.parent_edu_id)
           /\ CentroidsSize(clusters) # 0
           /\ AppendRecord(EnrichedRecord(idx, sat_meta, "nearest",
                               [present |-> TRUE, value |-> scores[ArgMax(scores) + 1]],
                               ArgMax(scores)))

\* lines 71-72: no centroid to compare with.
AttachSkip ==
    /\ AttachFrame
    /\ at_pc = "loop"
    /\ idx < Len(index_satellite)
    /\ ~ParentResolves(clusters, index_satellite[idx + 1].parent_edu_id)
    /\ CentroidsSize(clusters) = 0
    /\ idx' = idx + 1
    /\ UNCHANGED <<index_satellite, satellite_vectors, clusters_in, clusters, metric,
                   assignments, at_pc, at_error, attach_file>>
AttachRaise ==
    /\ AttachFrame
    /\ at_pc = "loop"
    /\ idx < Len(index_satellite)
    /\ ~ParentResolves(clusters, index_satellite[idx + 1].parent_edu_id)
    /\ CentroidsSize(clusters) = 0
    /\ at_pc' = "error"
    /\ at_error' = "Cannot attach satellites without clusters."
    /\ UNCHANGED <<index_satellite, satellite_vectors, clusters_in, clusters, metric,
                   assignments, idx, attach_file>>

\* The payload of lines 95-107.
AttachPayload(cl, asg, m) ==
    [metadata    |-> [metric |-> m],
     counts      |-> [clusters |-> Len(cl), satellites |-> Len(asg)],
     clusters    |-> cl,
     assignments |-> asg]

\* lines 95-111: the loop is over, the payload is written.
AttachWrite ==
    /\ AttachFrame
    /\ at_pc = "loop"
    /\ idx >= Len(index_satellite)
    /\ attach_file' = <<AttachPayload(clusters, assignments, metric)>>
    /\ at_pc' = "done"
    /\ UNCHANGED <<index_satellite, satellite_vectors, clusters_in, clusters, metric,
                   assignments, idx, at_error>>

AttachNext ==
    \/ AttachParent
    \/ AttachNearest
    \/ AttachRaise
    \/ AttachWrite

\* ================================================================= flatten_trees

\* doc_id of the i-th line of the input file.
DocKeys == <<"d1", "d2">>

\* The relations a tree can carry (schemas/rst.py, RSTRelation): the child, its
\* parent (None, itself, another or an unknown id), the child's nuclearity.
Relations ==
    { [child_id |-> c, parent_id |-> p, relation |-> "elaboration", nuclearity |-> n] :
        c \in EduIds, p \in {NoneVal} \cup EduIds, n \in {"nucleus", "satellite"} }

\* Relation lists: none, one relation, or two relations with the same child.
RelationLists ==
    LET sat == [child_id |-> "e1", parent_id |-> "e2", relation |-> "elaboration",
                nuclearity |-> "satellite"]
        nuc == [child_id |-> "e1", parent_id |-> NoneVal, relation |-> "elaboration",
                nuclearity |-> "nucleus"]
    IN  {<<>>} \cup {<<r>> : r \in Relations} \cup {<<sat, nuc>>, <<nuc, sat>>}

\* item["rst"] of a line that RSTParseResult.model_validate refuses (a missing
\* field, a nuclearity outside the Literal, ...).
InvalidTree == [valid |-> FALSE, edus |-> <<>>, relations |-> <<>>, root_edu |-> NoneVal]

\* Trees the schema accepts: EDU ids may repeat, a relation may name a child or
\* a parent that is no EDU, root_edu is optional and may name no EDU.
ValidTrees ==
    { [valid |-> TRUE, edus |-> e, relations |-> r, root_edu |-> root] :
        e \in SeqsOf(EduIds, 0, MaxEdus), r \in RelationLists, root \in {NoneVal} \cup EduIds }

Trees == ValidTrees \cup {InvalidTree}

\* relation_by_child.get(edu_id) (lines 25, 28): the last relation of the list
\* with that child, NoneVal-like absence reported through HasRelation.
HasRelation(tree, edu_id) ==
    \E i \in 1..Len(tree.relations) : tree.relations[i].child_id = edu_id

\* The first relation of the list with that child.
RelationByChildFirst(tree, edu_id) ==
    LET hits == {i \in 1..Len(tree.relations) : tree.relations[i].child_id = edu_id}
    IN  tree.relations[CHOOSE i \in hits : \A h \in hits : i <= h]
RelationByChild(tree, edu_id) ==
    LET hits == {i \in 1..Len(tree.relations) : tree.relations[i].child_id = edu_id}
    IN  tree.relations[CHOOSE i \in hits : \A h \in hits : h <= i]

\* line 49
IsRootFirstEdu(tree, i) == i = 1
IsRoot(tree, i) == tree.root_edu = tree.edus[i]

\* The row appended for the i-th EDU of a document (lines 27-51).
FlatRow(doc_id, tree, i) ==
    LET edu_id == tree.edus[i]
    IN  IF HasRelation(tree, edu_id)
        THEN [doc_id |-> doc_id, edu_id |-> edu_id,
              nuclearity    |-> RelationByChild(tree, edu_id).nuclearity,
              relation      |-> RelationByChild(tree, edu_id).relation,
              parent_edu_id |-> RelationByChild(tree, edu_id).parent_id,
              is_root       |-> IsRoot(tree, i)]
        ELSE [doc_id |-> doc_id, edu_id |-> edu_id,
              nuclearity    |-> "nucleus",
              relation      |-> NoneVal,
              parent_edu_id |-> NoneVal,
              is_root       |-> IsRoot(tree, i)]

\* The rows of one document: `for edu in parse_result.edus`.
FlattenTreeFirstPerId(item) ==
    LET keep == SelectSeq([i \in 1..Len(item.rst.edus) |-> i],
                          LAMBDA i : \A j \in 1..(i-1) : item.rst.edus[j] # item.rst.edus[i])
    IN  [n \in 1..Len(keep) |-> FlatRow(item.doc_id, item.rst, keep[n])]
FlattenTree(item) ==
    [i \in 1..Len(item.rst.edus) |-> FlatRow(item.doc_id, item.rst, i)]

\* The same iteration, with the rows so far written to the output file at once.
FlattenDocStreaming ==
    /\ FlattenFrame
    /\ fl_pc = "loop"
    /\ fl_doc < Len(parsed_docs)
    /\ parsed_docs[fl_doc + 1].rst.valid
    /\ rows' = rows \o FlattenTree(parsed_docs[fl_doc + 1])
    /\ fl_doc' = fl_doc + 1
    /\ edus_file' = <<rows'>>
    /\ UNCHANGED <<parsed_docs, fl_pc>>

\* lines 20-51: one iteration of `for item in parsed_docs` on a tree that validates.
FlattenDoc ==
    /\ FlattenFrame
    /\ fl_pc = "loop"
    /\ fl_doc < Len(parsed_docs)
    /\ parsed_docs[fl_doc + 1].rst.valid
    /\ rows' = rows \o FlattenTree(parsed_docs[fl_doc + 1])
    /\ fl_doc' = fl_doc + 1
    /\ UNCHANGED <<parsed_docs, fl_pc, edus_file>>

\* line 23: model_validate raises, flatten_trees ends without writing.
FlattenInvalid ==
    /\ FlattenFrame
    /\ fl_pc = "loop"
    /\ fl_doc < Len(parsed_docs)
    /\ ~parsed_docs[fl_doc + 1].rst.valid
    /\ fl_pc' = "error"
    /\ UNCHANGED <<parsed_docs, rows, fl_doc, edus_file>>

\* line 53: write_jsonl(output_path, rows) after the loop.
FlattenWrite ==
    /\ FlattenFrame
    /\ fl_pc = "loop"
    /\ fl_doc >= Len(parsed_docs)
    /\ edus_file' = <<rows>>
    /\ fl_pc' = "done"
    /\ UNCHANGED <<parsed_docs, rows, fl_doc>>

FlattenNext ==
    \/ FlattenDoc
    \/ FlattenInvalid
    \/ FlattenWrite

\* ==================================================================== embed_edus

\* np.zeros((0, 0)): the matrix _encode_texts returns for an empty batch.
\* A matrix is its shape and its rows.
ZeroMatrix == [shape |-> <<0, 0>>, data |-> <<>>]

\* ndarray.size
MatrixSize(m) == m.shape[1] * m.shape[2]

\* EDU texts of the flat table and their lengths.
Texts == {"a", "bb"}
TextLen(t) == IF t = "a" THEN 1 ELSE 2

\* Vector dimensions of the embedders used.
EmbedderDims == {2, 3}

\* EDU ids of the rows of a flat table, by position.
EmbedEduIds == <<"e1", "e2", "e3", "e4", "e5">>

\* What a row of the flat table can say about its EDU.
EmbedRowKinds ==
    { [nuclearity |-> "nucleus",   relation |-> NoneVal,       parent_edu_id |-> NoneVal, is_root |-> TRUE],
      [nuclearity |-> "nucleus",   relation |-> "elaboration", parent_edu_id |-> "e1",    is_root |-> FALSE],
      [nuclearity |-> "satellite", relation |-> "elaboration", parent_edu_id |-> "e1",    is_root |-> FALSE] }

\* The i-th row (1-based) of a flat table of document d1.
EmbedRow(i, kind, text) ==
    [doc_id |-> "d1", edu_id |-> EmbedEduIds[i], text |-> text,
     nuclearity |-> kind.nuclearity, relation |-> kind.relation,
     parent_edu_id |-> kind.parent_edu_id, is_root |-> kind.is_root]

\* The embedder: one vector per sentence, a function of the sentence alone
\* (components in tenths): base = len(sentence) % (dimension + 3), then
\* base + offset for offset in range(dimension).
EmbedderEncodeOne(sentence, dim) ==
    [offset \in 1..dim |-> (TextLen(sentence) % (dim + 3)) + (offset - 1)]
EmbedderEncode(sentences, dim) ==
    [shape |-> <<Len(sentences), dim>>,
     data  |-> [i \in 1..Len(sentences) |-> EmbedderEncodeOne(sentences[i], dim)]]

\* _encode_texts: no embedder call for an empty batch.
EncodeTexts(texts, dim) ==
    IF texts = <<>> THEN ZeroMatrix ELSE EmbedderEncode(texts, dim)

\* line 63 / line 64: the rows of one category, in table order.
NucleiAll(table) == table
Nuclei(table) == SelectSeq(table, LAMBDA row : row.nuclearity = "nucleus")
SatellitesWithParent(table) ==
    SelectSeq(table, LAMBDA row : row.nuclearity = "satellite" /\ Truthy(row.parent_edu_id))
Satellites(table) == SelectSeq(table, LAMBDA row : row.nuclearity = "satellite")

\* [row["text"] for row in ...]
TextsOf(rs) == [i \in 1..Len(rs) |-> rs[i].text]

\* lines 71-74.
DimensionOfNucleus(nv, sv) == nv.shape[2]
Dimension(nv, sv) ==
    IF MatrixSize(nv) # 0 /\ MatrixSize(sv) # 0 THEN nv.shape[2]
    ELSE IF MatrixSize(nv) # 0 THEN nv.shape[2]
    ELSE IF MatrixSize(sv) # 0 THEN sv.shape[2]
    ELSE 0

\* lines 87-97 and 98-108: the descriptors of the index.
NucleusDescriptor(row) ==
    [doc_id |-> row.doc_id, edu_id |-> row.edu_id, relation |-> row.relation,
     is_root |-> row.is_root]
SatelliteDescriptor(row) ==
    [doc_id |-> row.doc_id, edu_id |-> row.edu_id,
     parent_edu_id |-> row.parent_edu_id, relation |-> row.relation]

\* lines 79-109.
IndexPayload(dim, nuc, sat) ==
    [dimension |-> dim,
     counts    |-> [nucleus |-> Len(nuc), satellite |-> Len(sat)],
     nucleus   |-> [i \in 1..Len(nuc) |-> NucleusDescriptor(nuc[i])],
     satellite |-> [i \in 1..Len(sat) |-> SatelliteDescriptor(sat[i])]]

\* lines 60-66: read the table and partition it.
EmbedPartition ==
    /\ EmbedFrame
    /\ em_pc = "partition"
    /\ nuclei' = Nuclei(embed_rows)
    /\ satellites' = Satellites(embed_rows)
    /\ em_pc' = "encode_nucleus"
    /\ UNCHANGED <<embed_rows, embedder_dim, nucleus_vectors, em_satellite_vectors,
                   dimension, encode_calls, nucleus_npy, satellite_npy, index_file>>

\* line 68, with nucleus.npy saved as soon as the batch is encoded.
EmbedEncodeNucleusAndSave ==
    /\ EmbedFrame
    /\ em_pc = "encode_nucleus"
    /\ nucleus_vectors' = EncodeTexts(TextsOf(nuclei), embedder_dim)
    /\ encode_calls' = IF nuclei = <<>> THEN encode_calls
                       ELSE Append(encode_calls, TextsOf(nuclei))
    /\ nucleus_npy' = <<nucleus_vectors'>>
    /\ em_pc' = "encode_satellite"
    /\ UNCHANGED <<embed_rows, embedder_dim, nuclei, satellites, em_satellite_vectors,
                   dimension, satellite_npy, index_file>>

\* line 68: the nucleus batch is encoded.
EmbedEncodeNucleus ==
    /\ EmbedFrame
    /\ em_pc = "encode_nucleus"
    /\ nucleus_vectors' = EncodeTexts(TextsOf(nuclei), embedder_dim)
    /\ encode_calls' = IF nuclei = <<>> THEN encode_calls
                       ELSE Append(encode_calls, TextsOf(nuclei))
    /\ em_pc' = "encode_satellite"
    /\ UNCHANGED <<embed_rows, embedder_dim, nuclei, satellites, em_satellite_vectors,
                   dimension, nucleus_npy, satellite_npy, index_file>>

\* line 68: the embedder raises on the nucleus batch; the error propagates.
EmbedNucleusRaise ==
    /\ EmbedFrame
    /\ em_pc = "encode_nucleus"
    /\ nuclei # <<>>
    /\ encode_calls' = Append(encode_calls, TextsOf(nuclei))
    /\ em_pc' = "error"
    /\ UNCHANGED <<embed_rows, embedder_dim, nuclei, satellites, nucleus_vectors,
                   em_satellite_vectors, dimension, nucleus_npy, satellite_npy,
                   index_file>>

\* line 69: the satellite batch is encoded.
EmbedEncodeSatellite ==
    /\ EmbedFrame
    /\ em_pc = "encode_satellite"
    /\ em_satellite_vectors' = EncodeTexts(TextsOf(satellites), embedder_dim)
    /\ encode_calls' = IF satellites = <<>> THEN encode_calls
                       ELSE Append(encode_calls, TextsOf(satellites))
    /\ em_pc' = "save_nucleus"
    /\ UNCHANGED <<embed_rows, embedder_dim, nuclei, satellites, nucleus_vectors,
                   dimension, nucleus_npy, satellite_npy, index_file>>

\* line 69: the embedder raises on the satellite batch; the error propagates.
EmbedSatelliteRaise ==
    /\ EmbedFrame
    /\ em_pc = "encode_satellite"
    /\ satellites # <<>>
    /\ encode_calls' = Append(encode_calls, TextsOf(satellites))
    /\ em_pc' = "error"
    /\ UNCHANGED <<embed_rows, embedder_dim, nuclei, satellites, nucleus_vectors,
                   em_satellite_vectors, dimension, nucleus_npy, satellite_npy,
                   index_file>>

\* lines 71-76: dimension, then np.save(nucleus.npy).
EmbedSaveNucleus ==
    /\ EmbedFrame
    /\ em_pc = "save_nucleus"
    /\ dimension' = Dimension(nucleus_vectors, em_satellite_vectors)
    /\ nucleus_npy' = <<nucleus_vectors>>
    /\ em_pc' = "save_satellite"
    /\ UNCHANGED <<embed_rows, embedder_dim, nuclei, satellites, nucleus_vectors,
                   em_satellite_vectors, encode_calls, satellite_npy, index_file>>

\* line 77: np.save(satellite.npy).
EmbedSaveSatellite ==
    /\ EmbedFrame
    /\ em_pc = "save_satellite"
    /\ satellite_npy' = <<em_satellite_vectors>>
    /\ em_pc' = "write_index"
    /\ UNCHANGED <<embed_rows, embedder_dim, nuclei, satellites, nucleus_vectors,
                   em_satellite_vectors, dimension, encode_calls, nucleus_npy,
                   index_file>>

\* lines 79-111: the index payload is built and written.
EmbedWriteIndex ==
    /\ EmbedFrame
    /\ em_pc = "write_index"
    /\ index_file' = <<IndexPayload(dimension, nuclei, satellites)>>
    /\ em_pc' = "done"
    /\ UNCHANGED <<embed_rows, embedder_dim, nuclei, satellites, nucleus_vectors,
                   em_satellite_vectors, dimension, encode_calls, nucleus_npy,
                   satellite_npy>>

EmbedNext ==
    \/ EmbedPartition
    \/ EmbedEncodeNucleus
    \/ EmbedNucleusRaise
    \/ EmbedEncodeSatellite
    \/ EmbedSatelliteRaise
    \/ EmbedSaveNucleus
    \/ EmbedSaveSatellite
    \/ EmbedWriteIndex

\* ============================================================= aggregate_clusters

\* Members and satellites a cluster of the attach payload can hold.
AggMemberA == [doc_id |-> "d1", edu_id |-> "e1", is_root |-> TRUE,  relation |-> NoneVal]
AggMemberB == [doc_id |-> "d2", edu_id |-> "e1", is_root |-> TRUE,  relation |-> NoneVal]
AggMemberC == [doc_id |-> "d1", edu_id |-> "e2", is_root |-> FALSE, relation |-> "elaboration"]
AggSatS1 == [doc_id |-> "d1", edu_id |-> "s1", relation |-> "elaboration",
             attachment |-> "parent", score |-> NoneVal]
AggSatS2 == [doc_id |-> "d1", edu_id |-> "s2", relation |-> NoneVal,
             attachment |-> "nearest", score |-> "0.5"]
AggSatS3 == [doc_id |-> "d2", edu_id |-> "s3", relation |-> "",
             attachment |-> "nearest", score |-> "0.25"]

\* The member list and satellite list of a cluster of the payload.
ClusterShapes ==
    { [members |-> <<AggMemberA>>,             satellites |-> <<>>],
      [members |-> <<AggMemberA>>,             satellites |-> <<AggSatS1>>],
      [members |-> <<AggMemberB>>,             satellites |-> <<AggSatS3, AggSatS1>>],
      [members |-> <<AggMemberA, AggMemberC>>, satellites |-> <<>>],
      [members |-> <<AggMemberC, AggMemberB>>, satellites |-> <<AggSatS1, AggSatS2>>],
      [members |-> <<AggMemberC>>,             satellites |-> <<AggSatS2, AggSatS1, AggSatS3>>],
      [members |-> <<>>,                       satellites |-> <<AggSatS2>>] }

\* The cluster at position i (1-based) of a payload: cluster_id i - 1.
AggCluster(i, shape) ==
    [cluster_id |-> i - 1, centroid |-> <<i, 0>>, members |-> shape.members,
     satellites |-> [j \in 1..Len(shape.satellites) |->
                        [doc_id |-> shape.satellites[j].doc_id,
                         edu_id |-> shape.satellites[j].edu_id,
                         relation |-> shape.satellites[j].relation,
                         attachment |-> shape.satellites[j].attachment,
                         score |-> shape.satellites[j].score,
                         cluster_id |-> i - 1]]]

\* Flat tables (doc_id, edu_id, text) the aggregation is run with: every EDU
\* with its text; the root d1/e1 missing; d1/e1 with an empty text and d1/e2
\* listed twice.
AggFlatRow(d, e, t) == [doc_id |-> d, edu_id |-> e, text |-> t]
AggFlatTables ==
    { << AggFlatRow("d1", "e1", "t1"), AggFlatRow("d1", "e2", "t2"),
         AggFlatRow("d2", "e1", "t3"), AggFlatRow("d1", "s1", "t4"),
         AggFlatRow("d1", "s2", "t5"), AggFlatRow("d2", "s3", "t6") >>,
      << AggFlatRow("d1", "e2", "t2"), AggFlatRow("d2", "e1", "t3"),
         AggFlatRow("d1", "s1", "t4") >>,
      << AggFlatRow("d1", "e1", ""),   AggFlatRow("d1", "e2", "t2"),
         AggFlatRow("d1", "e2", "t7"), AggFlatRow("d1", "s2", "t5") >> }

\* _load_flattened and flattened_lookup.get(key, {}).get("text"): the text of
\* the last row with that key, None when there is none.
SourceText(table, doc_id, edu_id) ==
    LET hits == {i \in 1..Len(table) :
                    table[i].doc_id = doc_id /\ table[i].edu_id = edu_id}
    IN  IF hits = {} THEN NoneVal
        ELSE table[CHOOSE i \in hits : \A h \in hits : h <= i].text

\* lines 36-49.
NucleiEntries(table, cluster) ==
    [m \in 1..Len(cluster.members) |->
        [doc_id   |-> cluster.members[m].doc_id,
         edu_id   |-> cluster.members[m].edu_id,
         text     |-> SourceText(table, cluster.members[m].doc_id, cluster.members[m].edu_id),
         relation |-> cluster.members[m].relation,
         is_root  |-> cluster.members[m].is_root]]

\* The text of the first member when it has one, whatever the root flags.
HeadlineOfFirstMember(nuclei_entries) ==
    IF nuclei_entries # <<>> /\ Truthy(nuclei_entries[1].text)
    THEN nuclei_entries[1].text
    ELSE NoneVal

\* lines 51-54.
Headline(nuclei_entries) ==
    LET root_candidates ==
            SelectSeq(nuclei_entries, LAMBDA entry : entry.is_root /\ Truthy(entry.text))
    IN  IF root_candidates # <<>> THEN root_candidates[1].text
        ELSE IF nuclei_entries # <<>> /\ Truthy(nuclei_entries[1].text)
             THEN nuclei_entries[1].text
             ELSE NoneVal

\* line 60: sat.get("relation") or "unspecified".
BucketOf(sat) == IF Truthy(sat.relation) THEN sat.relation ELSE "unspecified"

\* lines 61-70.
SatelliteEntry(table, sat) ==
    [doc_id |-> sat.doc_id, edu_id |-> sat.edu_id,
     text |-> SourceText(table, sat.doc_id, sat.edu_id),
     attachment |-> sat.attachment, score |-> sat.score]

\* lines 56-70: a dict from relation label to the entries of the satellites
\* with that label, in the order of the cluster's satellites list.
SatellitesByRelation(table, cluster) ==
    LET sats == cluster.satellites
    IN  [label \in {BucketOf(sats[j]) : j \in 1..Len(sats)} |->
            LET mine == SelectSeq(sats, LAMBDA sat : BucketOf(sat) = label)
            IN  [j \in 1..Len(mine) |-> SatelliteEntry(table, mine[j])]]

\* line 79: sum(len(v) for v in satellites_by_relation.values()).
RECURSIVE SumOfLens(_, _)
SumOfLens(buckets, labels_left) ==
    IF labels_left = {} THEN 0
    ELSE LET label == CHOOSE l \in labels_left : TRUE
         IN  Len(buckets[label]) + SumOfLens(buckets, labels_left \ {label})
BucketCount(buckets) == Cardinality(DOMAIN buckets)
SatelliteCount(buckets) == SumOfLens(buckets, DOMAIN buckets)

\* line 78: len(nuclei_entries).
CommonalityWithText(nuclei_entries) ==
    Len(SelectSeq(nuclei_entries, LAMBDA entry : Truthy(entry.text)))
Commonality(nuclei_entries) == Len(nuclei_entries)

\* lines 35-82: the aggregated entry of one cluster.
AggregatedCluster(table, cluster) ==
    LET nuclei_entries == NucleiEntries(table, cluster)
        satellites_by_relation == SatellitesByRelation(table, cluster)
    IN  [cluster_id |-> cluster.cluster_id,
         headline |-> Headline(nuclei_entries),
         nuclei |-> nuclei_entries,
         satellites_by_relation |-> satellites_by_relation,
         commonality |-> Commonality(nuclei_entries),
         satellite_count |-> SatelliteCount(satellites_by_relation),
         centroid |-> cluster.centroid]

\* line 84: the sort key (-commonality, -satellite_count); a goes strictly
\* before b when its key is smaller.
KeyLessByCommonality(a, b) == a.commonality > b.commonality
KeyLess(a, b) ==
    \/ a.commonality > b.commonality
    \/ a.commonality = b.commonality /\ a.satellite_count > b.satellite_count

\* list.sort is stable: x goes behind every element that does not come
\* strictly after it.
InsertSorted(sorted, x) ==
    LET keep == {i \in 1..Len(sorted) : ~KeyLess(x, sorted[i])}
        n    == Cardinality(keep)
    IN  SubSeq(sorted, 1, n) \o <<x>> \o SubSeq(sorted, n + 1, Len(sorted))
RECURSIVE SortClusters(_)
SortClusters(cl) ==
    IF cl = <<>> THEN <<>>
    ELSE InsertSorted(SortClusters(SubSeq(cl, 1, Len(cl) - 1)), cl[Len(cl)])

\* lines 86-93.
SnapshotPayload(cl) ==
    [counts |-> [clusters |-> Len(cl),
                 total_nuclei |-> SumSeq([i \in 1..Len(cl) |-> cl[i].commonality]),
                 total_satellites |-> SumSeq([i \in 1..Len(cl) |-> cl[i].satellite_count])],
     clusters |-> cl]

\* lines 34-82: one iteration of `for cluster in clusters_payload["clusters"]`.
AggregateCluster ==
    /\ AggregateFrame
    /\ agg_pc = "loop"
    /\ agg_idx < Len(agg_clusters_in)
    /\ aggregated_clusters' =
          Append(aggregated_clusters, AggregatedCluster(agg_flat, agg_clusters_in[agg_idx + 1]))
    /\ agg_idx' = agg_idx + 1
    /\ UNCHANGED <<agg_flat, agg_clusters_in, agg_pc, snapshot_file>>

\* lines 84-97: the list is sorted in place, the payload built and written.
AggregateWrite ==
    /\ AggregateFrame
    /\ agg_pc = "loop"
    /\ agg_idx = Len(agg_clusters_in)
    /\ aggregated_clusters' = SortClusters(aggregated_clusters)
    /\ snapshot_file' = <<SnapshotPayload(aggregated_clusters')>>
    /\ agg_pc' = "done"
    /\ UNCHANGED <<agg_flat, agg_clusters_in, agg_idx>>

AggregateNext ==
    \/ AggregateCluster
    \/ AggregateWrite

\* ================================================================== parse_corpus

\* doc_id of the i-th raw document, and the topics a document can have.
RawDocIds == <<"d1", "d2", "d3", "d4">>
TopicIds  == {"t1", "t2"}

\* The i-th (1-based) line of the input file, a valid RawDocument.
RawDoc(i, topic) ==
    [doc_id |-> RawDocIds[i], topic_id |-> topic, author_id |-> "u1", text |-> "a. bb."]

\* Names of the parsers the stage is run with.
ParserNames == {"stub", "sentence_split"}

\* What parser.parse may return: the trees of a sentence splitter for texts
\* of zero, one and two sentences (the first without the optional root_edu
\* key), a dict without `edus`, and a tree whose relation has a nuclearity
\* outside the schema's Literal.
ParserResults ==
    { [edus |-> <<>>, relations |-> <<>>],
      [edus |-> <<[edu_id |-> "e1", text |-> "a"]>>, relations |-> <<>>, root_edu |-> "e1"],
      [edus |-> <<[edu_id |-> "e1", text |-> "a"], [edu_id |-> "e2", text |-> "bb"]>>,
       relations |-> <<[child_id |-> "e2", parent_id |-> "e1", relation |-> "sequence",
                        nuclearity |-> "satellite"]>>,
       root_edu |-> "e1"],
      [relations |-> <<>>, root_edu |-> NoneVal],
      [edus |-> <<[edu_id |-> "e1", text |-> "a"]>>,
       relations |-> <<[child_id |-> "e1", parent_id |-> NoneVal, relation |-> "span",
                        nuclearity |-> "multi"]>>,
       root_edu |-> "e1"] }

\* RSTParseResult.model_validate (schemas/rst.py): the required fields are
\* there and every relation's nuclearity is one of the two literals.
SchemaValid(res) ==
    /\ {"edus", "relations"} \subseteq DOMAIN res
    /\ \A i \in 1..Len(res.relations) :
          res.relations[i].nuclearity \in {"nucleus", "satellite"}

\* parse_result.model_dump(): every field of the schema, defaults filled in.
ModelDump(res) ==
    [edus      |-> [i \in 1..Len(res.edus) |->
                      [edu_id |-> res.edus[i].edu_id, text |-> res.edus[i].text,
                       span |-> NoneVal]],
     relations |-> res.relations,
     root_edu  |-> IF "root_edu" \in DOMAIN res THEN res.root_edu ELSE NoneVal]

\* No exception.
NoParseError == [kind |-> NoneVal, message |-> NoneVal, doc_id |-> NoneVal]

\* lines 46-53.
ParsedRow(doc, name, res) ==
    [doc_id |-> doc.doc_id, topic_id |-> doc.topic_id,
     parser |-> [name |-> name], rst |-> ModelDump(res)]

\* The same iteration on an invalid result, with the document left out.
ParseSkipInvalid ==
    /\ ParseFrame
    /\ pr_pc = "loop"
    /\ pr_idx < Len(documents)
    /\ \E res \in ParserResults : ~SchemaValid(res)
    /\ pr_idx' = pr_idx + 1
    /\ UNCHANGED <<documents, parser_name, pr_rows, pr_pc, pr_error, rst_file>>

\* lines 39-44: the parser's result fails validation; ValueError naming the document.
ParseInvalid ==
    /\ ParseFrame
    /\ pr_pc = "loop"
    /\ pr_idx < Len(documents)
    /\ \E res \in ParserResults : ~SchemaValid(res)
    /\ pr_pc' = "error"
    /\ pr_error' = [kind |-> "ValueError",
                    message |-> "Parser returned invalid structure for doc",
                    doc_id |-> documents[pr_idx + 1].doc_id]
    /\ UNCHANGED <<documents, parser_name, pr_rows, pr_idx, rst_file>>

\* line 42: parser.parse itself raises; the exception propagates as it is.
ParseParserRaises ==
    /\ ParseFrame
    /\ pr_pc = "loop"
    /\ pr_idx < Len(documents)
    /\ pr_pc' = "error"
    /\ pr_error' = [kind |-> "ParserError", message |-> NoneVal, doc_id |-> NoneVal]
    /\ UNCHANGED <<documents, parser_name, pr_rows, pr_idx, rst_file>>

\* lines 39-53: one iteration of `for raw in documents` with a valid result.
ParseDoc ==
    /\ ParseFrame
    /\ pr_pc = "loop"
    /\ pr_idx < Len(documents)
    /\ \E res \in ParserResults :
          /\ SchemaValid(res)
          /\ pr_rows' = Append(pr_rows, ParsedRow(documents[pr_idx + 1], parser_name, res))
    /\ pr_idx' = pr_idx + 1
    /\ UNCHANGED <<documents, parser_name, pr_pc, pr_error, rst_file>>

\* line 55: the loop is over, the rows are written.
ParseWrite ==
    /\ ParseFrame
    /\ pr_pc = "loop"
    /\ pr_idx = Len(documents)
    /\ rst_file' = <<pr_rows>>
    /\ pr_pc' = "done"
    /\ UNCHANGED <<documents, parser_name, pr_rows, pr_idx, pr_error>>

ParseNext ==
    \/ ParseDoc
    \/ ParseInvalid
    \/ ParseParserRaises
    \/ ParseWrite

\* ===================================================================== embed_cli

\* Values of --model: the default and the one the help text calls the
\* deterministic fallback.
CliModels == {"sentence-transformers/all-mpnet-base-v2", "stub"}

\* cli.py lines 357-363 and embed.py lines 60-66 with embedder=None: the table
\* is partitioned and _ensure_embedder constructs SentenceTransformer(model)
\* for whatever name it is given; here the external model loads.
EmbedCliLoadModel ==
    /\ CliFrame
    /\ cli_pc = "invoked"
    /\ em_pc = "partition"
    /\ nuclei' = Nuclei(embed_rows)
    /\ satellites' = Satellites(embed_rows)
    /\ st_loads' = Append(st_loads, cli_model)
    /\ embedder_dim' \in EmbedderDims
    /\ em_pc' = "encode_nucleus"
    /\ UNCHANGED <<embed_rows, nucleus_vectors, em_satellite_vectors, dimension,
                   encode_calls, nucleus_npy, satellite_npy, index_file,
                   cli_model, cli_pc, exit_code>>

\* embed.py lines 31-33: the import of sentence_transformers raises (package
\* missing: nothing is constructed) or the construction of the external model
\* does (unknown model name, no network); the command fails.
EmbedCliLoadRaises ==
    /\ CliFrame
    /\ cli_pc = "invoked"
    /\ em_pc = "partition"
    /\ st_loads' \in {st_loads, Append(st_loads, cli_model)}
    /\ em_pc' = "error"
    /\ cli_pc' = "exited"
    /\ exit_code' = 1
    /\ UNCHANGED <<embed_rows, embedder_dim, nuclei, satellites, nucleus_vectors,
                   em_satellite_vectors, dimension, encode_calls, nucleus_npy,
                   satellite_npy, index_file, cli_model>>

\* An exception of embed_edus leaves the command with a non-zero exit code.
EmbedCliFail ==
    /\ CliFrame
    /\ cli_pc = "invoked"
    /\ em_pc = "error"
    /\ cli_pc' = "exited"
    /\ exit_code' = 1
    /\ UNCHANGED <<embedVars, cli_model, st_loads>>

\* cli.py line 364: embed_edus returned; the command reports and exits with 0.
EmbedCliEcho ==
    /\ CliFrame
    /\ cli_pc = "invoked"
    /\ em_pc = "done"
    /\ cli_pc' = "exited"
    /\ exit_code' = 0
    /\ UNCHANGED <<embedVars, cli_model, st_loads>>

EmbedCliNext ==
    \/ EmbedCliLoadModel
    \/ EmbedCliLoadRaises
    \/ EmbedEncodeNucleus
    \/ EmbedNucleusRaise
    \/ EmbedEncodeSatellite
    \/ EmbedSatelliteRaise
    \/ EmbedSaveNucleus
    \/ EmbedSaveSatellite
    \/ EmbedWriteIndex
    \/ EmbedCliFail
    \/ EmbedCliEcho

\* ====================================================================== pipeline
\* The commands of cli.py run the stages one after the other, each on the
\* files the previous one wrote, and a command is started only when the one
\* before it has succeeded (the asserts of test_full_stub_pipeline_via_cli);
\* then the whole pipeline is run a second time on the same inputs, over the
\* files the first run has left.

\* Trees of the parsed documents the pipeline is run on: a root nucleus with a
\* satellite naming it as parent; a lone root nucleus; two nuclei; a root
\* nucleus e2 with satellite e1; a satellite without parent; an EDU id listed
\* twice.
PipelineTrees ==
    LET rel(c, p, n) == [child_id |-> c, parent_id |-> p, relation |-> "elaboration",
                         nuclearity |-> n]
        tree(e, r, root) == [valid |-> TRUE, edus |-> e, relations |-> r, root_edu |-> root]
    IN  { tree(<<"e1", "e2">>, <<rel("e2", "e1", "satellite")>>, "e1"),
          tree(<<"e1">>, <<>>, "e1"),
          tree(<<"e1", "e2">>, <<rel("e2", "e1", "nucleus")>>, "e1"),
          tree(<<"e2", "e1">>, <<rel("e1", "e2", "satellite")>>, "e2"),
          tree(<<"e1", "e2">>, <<rel("e2", NoneVal, "satellite")>>, "e1"),
          tree(<<"e1", "e1">>, <<>>, "e1") }

\* Texts of the EDUs: all alike; one text per document; one text per EDU id.
PipelineTexts ==
    LET keys == {<<d, e>> : d \in {"d1", "d2"}, e \in EduIds}
    IN  { [key \in keys |-> "a"],
          [key \in keys |-> IF key[1] = "d1" THEN "a" ELSE "bb"],
          [key \in keys |-> IF key[2] = "e1" THEN "a" ELSE "bb"] }

\* Values of --k: click.IntRange(1).
PipelineKs == {1, 2}

\* The flat table as it is on disk: flatten_trees copies edu.text into every
\* row.
WithText(table, texts) ==
    [i \in 1..Len(table) |->
        [doc_id |-> table[i].doc_id, edu_id |-> table[i].edu_id,
         text |-> texts[<<table[i].doc_id, table[i].edu_id>>],
         nuclearity |-> table[i].nuclearity, relation |-> table[i].relation,
         parent_edu_id |-> table[i].parent_edu_id, is_root |-> table[i].is_root]]

\* Componentwise sum of the rows of a matrix at the given positions.
RECURSIVE VecSum(_, _, _)
VecSum(data, positions, dim) ==
    IF positions = {} THEN [j \in 1..dim |-> 0]
    ELSE LET p == CHOOSE q \in positions : TRUE
             rest == VecSum(data, positions \ {p}, dim)
         IN  [j \in 1..dim |-> data[p][j] + rest[j]]

\* KMeans(n_clusters = kk, random_state = seed).fit_predict on the rows of
\* nucleus.npy.  The library is outside the repository; of its result the
\* model keeps that rows with equal vectors get equal labels, that no cluster
\* stays empty while there are at least kk different vectors, and that a
\* centre is the mean of its members (some data point for an empty cluster).
\* Centres are kept in twelfths of the embedding unit, so that the mean of up
\* to four rows is an integer vector; every centre carries the same factor,
\* which changes no comparison of similarities.
SeededKMeansFits(data, kk) ==
    LET n == Len(data)
        dim == IF n = 0 THEN 0 ELSE Len(data[1])
        points == {[j \in 1..dim |-> 12 * data[i][j]] : i \in 1..n}
        ok(l) == /\ \A i, j \in 1..n : data[i] = data[j] => l[i] = l[j]
                 /\ Cardinality(points) >= kk => {l[i] : i \in 1..n} = 0..(kk - 1)
        members(l, c) == {i \in 1..n : l[i] = c}
        centres(l, c) ==
            IF members(l, c) = {} THEN points
            ELSE LET sum == VecSum(data, members(l, c), dim)
                 IN  {[j \in 1..dim |-> sum[j] * (12 \div Cardinality(members(l, c)))]}
    IN  UNION { { [labels |-> l, centers |-> ctr] :
                    ctr \in {f \in [1..kk -> UNION {centres(l, c) : c \in 0..(kk - 1)}] :
                                \A c \in 1..kk : f[c] \in centres(l, c - 1)} } :
                l \in {f \in [1..n -> 0..(kk - 1)] : ok(f)} }

\* Values of --seed: the default of the command and the seed of the tests.
Seeds == {13, 42}

\* KMeans(n_clusters = kk, random_state = seed, n_init = "auto").fit_predict
\* (cluster_nucleus.py lines 48-53).  With random_state an integer the library
\* draws all its randomness from a generator seeded with it, so the result is
\* a function of the vectors, n_clusters and random_state: the result of an
\* earlier call with these three arguments, any admissible fit for arguments
\* not seen before.
KMeansWithRandomState(calls, data, kk, seed) ==
    LET same == {i \in 1..Len(calls) : /\ calls[i].vectors = data
                                        /\ calls[i].n_clusters = kk
                                        /\ calls[i].random_state = seed}
    IN  IF same = {} THEN SeededKMeansFits(data, kk)
        ELSE {calls[CHOOSE i \in same : TRUE].fit}

\* The calls the library has answered, after this one.
KMeansCalled(calls, data, kk, seed, fit) ==
    IF \E i \in 1..Len(calls) : /\ calls[i].vectors = data
                                 /\ calls[i].n_clusters = kk
                                 /\ calls[i].random_state = seed
    THEN calls
    ELSE Append(calls, [vectors |-> data, n_clusters |-> kk, random_state |-> seed,
                        fit |-> fit])

\* The artifacts a finished run has left on disk.
Artifacts ==
    [edus |-> edus_file, nucleus_npy |-> nucleus_npy, satellite_npy |-> satellite_npy,
     index |-> index_file, clusters |-> clusters_file, attach |-> attach_file,
     snapshot |-> snapshot_file]

\* `rstflow embed` is invoked on the flat table flatten_trees wrote.
PipeRunEmbed ==
    /\ run_no > 0 /\ fl_pc = "done" /\ em_pc = "off" /\ cli_pc = "off"
    /\ embed_rows' = WithText(edus_file[1], edu_text)
    /\ nuclei' = <<>> /\ satellites' = <<>>
    /\ nucleus_vectors' = ZeroMatrix /\ em_satellite_vectors' = ZeroMatrix
    /\ dimension' = 0 /\ encode_calls' = <<>>
    /\ em_pc' = "partition"
    /\ cli_pc' = "invoked" /\ exit_code' = 0
    /\ UNCHANGED <<embedder_dim, nucleus_npy, satellite_npy, index_file>>
    /\ UNCHANGED <<cli_model, st_loads>>
    /\ UNCHANGED <<flattenVars, clusterVars, attachVars, aggregateVars, parseVars,
                   pipelineVars>>

\* The command partitions the table and loads the model of the given name;
\* the pipeline is run where that name resolves to an embedder of dimension
\* 2, the same at every load.
PipeEmbedLoadModel ==
    /\ run_no > 0
    /\ EmbedCliLoadModel
    /\ embedder_dim' = 2

\* `rstflow cluster`: cluster_nuclei loads nucleus.npy and index.jsonl
\* (cluster_nucleus.py lines 38-39).
PipeRunCluster ==
    /\ run_no > 0 /\ em_pc = "done" /\ cl_pc = "off"
    /\ cli_pc = "exited" /\ exit_code = 0
    /\ vectors_shape' = nucleus_npy[1].shape
    /\ nucleus_meta' = index_file[1].nucleus
    /\ k' = pipe_k
    /\ labels' = <<>> /\ centroid_vectors' = <<>> /\ cl_clusters' = <<>>
    /\ cl_pc' = "check" /\ cl_error' = NoneVal
    /\ UNCHANGED clusters_file
    /\ UNCHANGED <<flattenVars, attachVars, embedVars, aggregateVars, parseVars,
                   cliVars, pipelineVars>>

\* The same step with KMeans constructed without random_state: the library
\* seeds itself anew at every call, and any admissible fit comes back.
PipeClusterFitUnseeded ==
    /\ run_no > 0 /\ cl_pc = "check"
    /\ VectorsSize(vectors_shape) # 0
    /\ k > 0
    /\ k <= VectorsLen(vectors_shape)
    /\ \E fit \in SeededKMeansFits(nucleus_npy[1].data, k) :
          /\ labels' = fit.labels
          /\ centroid_vectors' = fit.centers
    /\ cl_clusters' = <<>>
    /\ cl_pc' = "build"
    /\ UNCHANGED <<vectors_shape, nucleus_meta, k, cl_error, clusters_file>>
    /\ UNCHANGED pipelineVars
    /\ UNCHANGED <<flattenVars, attachVars, embedVars, aggregateVars, parseVars, cliVars>>

\* cluster_nucleus.py lines 48-56 on the vectors of nucleus.npy: KMeans is
\* constructed anew with random_state = seed and fitted.
PipeClusterFit ==
    /\ run_no > 0 /\ cl_pc = "check"
    /\ VectorsSize(vectors_shape) # 0
    /\ k > 0
    /\ k <= VectorsLen(vectors_shape)
    /\ \E fit \in KMeansWithRandomState(sklearn_kmeans, nucleus_npy[1].data, k, pipe_seed) :
          /\ labels' = fit.labels
          /\ centroid_vectors' = fit.centers
          /\ sklearn_kmeans' = KMeansCalled(sklearn_kmeans, nucleus_npy[1].data, k,
                                            pipe_seed, fit)
    /\ cl_clusters' = <<>>
    /\ cl_pc' = "build"
    /\ UNCHANGED <<vectors_shape, nucleus_meta, k, cl_error, clusters_file>>
    /\ UNCHANGED <<edu_text, pipe_k, pipe_metric, pipe_seed, run_no, first_run>>
    /\ UNCHANGED <<flattenVars, attachVars, embedVars, aggregateVars, parseVars, cliVars>>

\* `rstflow attach`, reading the output of an earlier attach run where there
\* is one.
PipeRunAttachOnLeftover ==
    /\ run_no > 0 /\ cl_pc = "done" /\ at_pc = "off"
    /\ index_satellite' = index_file[1].satellite
    /\ satellite_vectors' = satellite_npy[1].data
    /\ clusters_in' = IF attach_file = NoFile THEN clusters_file[1].clusters
                      ELSE attach_file[1].clusters
    /\ clusters' = SetDefaultSatellites(clusters_in')
    /\ metric' = pipe_metric
    /\ assignments' = <<>> /\ idx' = 0
    /\ at_pc' = "loop" /\ at_error' = NoneVal
    /\ UNCHANGED attach_file
    /\ UNCHANGED <<flattenVars, clusterVars, embedVars, aggregateVars, parseVars,
                   cliVars, pipelineVars>>

\* `rstflow attach`: attach_satellites loads index.jsonl, satellite.npy and
\* the payload cluster_nuclei wrote (attach_satellites.py lines 45-56).
PipeRunAttach ==
    /\ run_no > 0 /\ cl_pc = "done" /\ at_pc = "off"
    /\ index_satellite' = index_file[1].satellite
    /\ satellite_vectors' = satellite_npy[1].data
    /\ clusters_in' = clusters_file[1].clusters
    /\ clusters' = SetDefaultSatellites(clusters_in')
    /\ metric' = pipe_metric
    /\ assignments' = <<>> /\ idx' = 0
    /\ at_pc' = "loop" /\ at_error' = NoneVal
    /\ UNCHANGED attach_file
    /\ UNCHANGED <<flattenVars, clusterVars, embedVars, aggregateVars, parseVars,
                   cliVars, pipelineVars>>

\* `rstflow aggregate`: aggregate_clusters loads the flat table and the
\* payload attach_satellites wrote (aggregate.py lines 29-31).
PipeRunAggregate ==
    /\ run_no > 0 /\ at_pc = "done" /\ agg_pc = "off"
    /\ agg_flat' = WithText(edus_file[1], edu_text)
    /\ agg_clusters_in' = attach_file[1].clusters
    /\ aggregated_clusters' = <<>> /\ agg_idx' = 0
    /\ agg_pc' = "loop"
    /\ UNCHANGED snapshot_file
    /\ UNCHANGED <<flattenVars, clusterVars, attachVars, embedVars, parseVars,
                   cliVars, pipelineVars>>

\* The first run is over; the same commands are started again on the same
\* parsed documents, with every file of the first run still on disk, and
\* with some --seed, the one of the first run or another.
PipeRerun ==
    /\ run_no = 1 /\ agg_pc = "done"
    /\ run_no' = 2
    /\ pipe_seed' \in Seeds
    /\ first_run' = <<[seed |-> pipe_seed, files |-> Artifacts]>>
    /\ rows' = <<>> /\ fl_doc' = 0 /\ fl_pc' = "loop"
    /\ em_pc' = "off" /\ cl_pc' = "off" /\ at_pc' = "off" /\ agg_pc' = "off"
    /\ cli_pc' = "off"
    /\ UNCHANGED <<parsed_docs, edus_file>>
    /\ UNCHANGED <<embed_rows, embedder_dim, nuclei, satellites, nucleus_vectors,
                   em_satellite_vectors, dimension, encode_calls, nucleus_npy,
                   satellite_npy, index_file>>
    /\ UNCHANGED <<vectors_shape, nucleus_meta, k, labels, centroid_vectors,
                   cl_clusters, cl_error, clusters_file>>
    /\ UNCHANGED <<index_satellite, satellite_vectors, clusters_in, clusters, metric,
                   assignments, idx, at_error, attach_file>>
    /\ UNCHANGED <<agg_flat, agg_clusters_in, aggregated_clusters, agg_idx, snapshot_file>>
    /\ UNCHANGED <<edu_text, pipe_k, pipe_metric, sklearn_kmeans>>
    /\ UNCHANGED <<cli_model, st_loads, exit_code>>
    /\ UNCHANGED parseVars

PipelineNext ==
    \/ FlattenDoc
    \/ FlattenWrite
    \/ PipeRunEmbed
    \/ PipeEmbedLoadModel
    \/ EmbedCliLoadRaises
    \/ EmbedEncodeNucleus
    \/ EmbedNucleusRaise
    \/ EmbedEncodeSatellite
    \/ EmbedSatelliteRaise
    \/ EmbedSaveNucleus
    \/ EmbedSaveSatellite
    \/ EmbedWriteIndex
    \/ EmbedCliFail
    \/ EmbedCliEcho
    \/ PipeRunCluster
    \/ ClusterRejectEmpty
    \/ ClusterRejectExceeds
    \/ PipeClusterFit
    \/ ClusterAppend
    \/ ClusterWrite
    \/ PipeRunAttach
    \/ AttachParent
    \/ AttachNearest
    \/ AttachWrite
    \/ PipeRunAggregate
    \/ AggregateCluster
    \/ AggregateWrite
    \/ PipeRerun

\* ===================================================================== specifications

FlattenIdle ==
    /\ parsed_docs = <<>> /\ rows = <<>> /\ fl_doc = 0 /\ fl_pc = "off" /\ edus_file = NoFile

ClusterIdle ==
    /\ vectors_shape = <<0, 0>> /\ nucleus_meta = <<>> /\ k = 0 /\ labels = <<>>
    /\ centroid_vectors = <<>> /\ cl_clusters = <<>> /\ cl_pc = "off"
    /\ cl_error = NoneVal /\ clusters_file = NoFile

AttachIdle ==
    /\ index_satellite = <<>> /\ satellite_vectors = <<>> /\ clusters_in = <<>>
    /\ clusters = <<>> /\ metric = "cosine" /\ assignments = <<>> /\ idx = 0
    /\ at_pc = "off" /\ at_error = NoneVal /\ attach_file = NoFile

EmbedIdle ==
    /\ embed_rows = <<>> /\ embedder_dim = 0 /\ nuclei = <<>> /\ satellites = <<>>
    /\ nucleus_vectors = ZeroMatrix /\ em_satellite_vectors = ZeroMatrix /\ dimension = 0
    /\ encode_calls = <<>> /\ nucleus_npy = NoFile /\ satellite_npy = NoFile
    /\ index_file = NoFile /\ em_pc = "off"

AggregateIdle ==
    /\ agg_flat = <<>> /\ agg_clusters_in = <<>> /\ aggregated_clusters = <<>>
    /\ agg_idx = 0 /\ agg_pc = "off" /\ snapshot_file = NoFile

ParseIdle ==
    /\ documents = <<>> /\ parser_name = NoneVal /\ pr_rows = <<>> /\ pr_idx = 0
    /\ pr_pc = "off" /\ pr_error = NoParseError /\ rst_file = NoFile

CliIdle ==
    /\ cli_model = NoneVal /\ st_loads = <<>> /\ cli_pc = "off" /\ exit_code = 0

PipelineIdle ==
    /\ edu_text = <<>> /\ pipe_k = 0 /\ pipe_metric = "cosine" /\ run_no = 0
    /\ pipe_seed = 13 /\ sklearn_kmeans = <<>> /\ first_run = <<>>

\* cluster_nuclei is called on an embedding index of 0..MaxNuclei nuclei (the
\* matrix has one row of dimension 2 per descriptor, shape (0, 0) when there is
\* none) with any k around the valid range.
ClusterInit ==
    /\ nucleus_meta \in SeqsOf(NucleusMetas, 0, MaxNuclei)
    /\ vectors_shape = IF nucleus_meta = <<>> THEN <<0, 0>> ELSE <<Len(nucleus_meta), 2>>
    /\ k \in -1..(MaxNuclei + 1)
    /\ labels = <<>> /\ centroid_vectors = <<>> /\ cl_clusters = <<>>
    /\ cl_pc = "check" /\ cl_error = NoneVal /\ clusters_file = NoFile
    /\ FlattenIdle /\ AttachIdle /\ EmbedIdle /\ AggregateIdle /\ ParseIdle /\ CliIdle /\ PipelineIdle

\* flatten_trees is run on a file of 0..Len(DocKeys) parsed documents.
FlattenInit ==
    /\ \E n \in 0..Len(DocKeys) : \E trees \in [1..n -> Trees] :
          parsed_docs = [i \in 1..n |-> [doc_id |-> DocKeys[i], rst |-> trees[i]]]
    /\ rows = <<>> /\ fl_doc = 0 /\ fl_pc = "loop" /\ edus_file = NoFile
    /\ ClusterIdle /\ AttachIdle /\ EmbedIdle /\ AggregateIdle /\ ParseIdle /\ CliIdle /\ PipelineIdle

SpecFlatten == FlattenInit /\ [][FlattenNext]_vars

SpecCluster == ClusterInit /\ [][ClusterNext]_vars

\* Nucleus indexes behind the cluster payloads attach_satellites is run on.
AttachNucleusIndexes ==
    LET a == [doc_id |-> "d1", edu_id |-> "e1", is_root |-> TRUE]
        b == [doc_id |-> "d2", edu_id |-> "e1", is_root |-> TRUE]
        c == [doc_id |-> "d1", edu_id |-> "e2", is_root |-> FALSE]
    IN  {<<a>>, <<a, b>>, <<a, c>>}

\* The cluster lists attach_satellites reads: every list cluster_nuclei can
\* write for those indexes, and the list without clusters.
AttachClusterLists ==
    {<<>>} \cup
    UNION { UNION { { BuildClusters(meta, fit.labels, fit.centers, kk) :
                        fit \in KMeansFits(Len(meta), kk) } :
                    kk \in 1..Len(meta) } :
            meta \in AttachNucleusIndexes }

\* The satellite descriptor of row i (1-based) with the given parent.
SatelliteMeta(i, parent) ==
    [doc_id |-> SatelliteKeys[i].doc_id, edu_id |-> SatelliteKeys[i].edu_id,
     parent_edu_id |-> parent, relation |-> "elaboration"]

AttachInit ==
    /\ clusters_in \in AttachClusterLists
    /\ clusters = SetDefaultSatellites(clusters_in)
    /\ \E n \in 0..MaxSatellites :
          /\ \E parents \in [1..n -> ParentIds] :
                index_satellite = [i \in 1..n |-> SatelliteMeta(i, parents[i])]
          /\ satellite_vectors \in [1..n -> SatelliteVecs]
    /\ metric \in {"cosine", "dot"}
    /\ assignments = <<>> /\ idx = 0
    /\ at_pc = "loop" /\ at_error = NoneVal /\ attach_file = NoFile
    /\ FlattenIdle /\ ClusterIdle /\ EmbedIdle /\ AggregateIdle /\ ParseIdle /\ CliIdle /\ PipelineIdle

SpecAttach == AttachInit /\ [][AttachNext]_vars

\* embed_edus is run on a flat table of 0..MaxRows rows of one document, as
\* flatten_trees writes it (nuclearity is "nucleus" or "satellite"), with an
\* embedder of some dimension; no output file exists yet.
EmbedInit ==
    /\ \E n \in 0..MaxRows :
          \E kinds \in [1..n -> EmbedRowKinds], texts \in [1..n -> Texts] :
              embed_rows = [i \in 1..n |-> EmbedRow(i, kinds[i], texts[i])]
    /\ embedder_dim \in EmbedderDims
    /\ nuclei = <<>> /\ satellites = <<>>
    /\ nucleus_vectors = ZeroMatrix /\ em_satellite_vectors = ZeroMatrix
    /\ dimension = 0 /\ encode_calls = <<>>
    /\ nucleus_npy = NoFile /\ satellite_npy = NoFile /\ index_file = NoFile
    /\ em_pc = "partition"
    /\ FlattenIdle /\ ClusterIdle /\ AttachIdle /\ AggregateIdle /\ ParseIdle /\ CliIdle /\ PipelineIdle

SpecEmbed == EmbedInit /\ [][EmbedNext]_vars

\* aggregate_clusters is run on a flat table and on a payload of 0..MaxClusters
\* clusters with ids 0, 1, .. in list order, as attach_satellites writes it.
AggregateInit ==
    /\ agg_flat \in AggFlatTables
    /\ \E n \in 0..MaxClusters : \E shapes \in [1..n -> ClusterShapes] :
          agg_clusters_in = [i \in 1..n |-> AggCluster(i, shapes[i])]
    /\ aggregated_clusters = <<>> /\ agg_idx = 0
    /\ agg_pc = "loop" /\ snapshot_file = NoFile
    /\ FlattenIdle /\ ClusterIdle /\ AttachIdle /\ EmbedIdle /\ ParseIdle /\ CliIdle /\ PipelineIdle

SpecAggregate == AggregateInit /\ [][AggregateNext]_vars

\* parse_corpus is run on a file of 0..MaxDocs raw documents with a parser of
\* some name; no output file exists yet.
ParseInit ==
    /\ \E n \in 0..MaxDocs : \E topics \in [1..n -> TopicIds] :
          documents = [i \in 1..n |-> RawDoc(i, topics[i])]
    /\ parser_name \in ParserNames
    /\ pr_rows = <<>> /\ pr_idx = 0 /\ pr_pc = "loop"
    /\ pr_error = NoParseError /\ rst_file = NoFile
    /\ FlattenIdle /\ ClusterIdle /\ AttachIdle /\ EmbedIdle /\ AggregateIdle /\ CliIdle /\ PipelineIdle

SpecParse == ParseInit /\ [][ParseNext]_vars

\* The embed command is invoked on a flat table of 0..MaxRows rows with one of
\* the model names; no embedder object is passed to embed_edus.
EmbedCliInit ==
    /\ \E n \in 0..MaxRows :
          \E kinds \in [1..n -> EmbedRowKinds], texts \in [1..n -> Texts] :
              embed_rows = [i \in 1..n |-> EmbedRow(i, kinds[i], texts[i])]
    /\ embedder_dim = 0
    /\ nuclei = <<>> /\ satellites = <<>>
    /\ nucleus_vectors = ZeroMatrix /\ em_satellite_vectors = ZeroMatrix
    /\ dimension = 0 /\ encode_calls = <<>>
    /\ nucleus_npy = NoFile /\ satellite_npy = NoFile /\ index_file = NoFile
    /\ em_pc = "partition"
    /\ cli_model \in CliModels /\ st_loads = <<>> /\ cli_pc = "invoked" /\ exit_code = 0
    /\ FlattenIdle /\ ClusterIdle /\ AttachIdle /\ AggregateIdle /\ ParseIdle /\ PipelineIdle

SpecEmbedCli == EmbedCliInit /\ [][EmbedCliNext]_vars

\* The pipeline is run on a file of 0..Len(DocKeys) parsed documents with a
\* model name, a k and a metric; no artifact exists yet.
PipelineInit ==
    /\ \E n \in 0..Len(DocKeys) : \E trees \in [1..n -> PipelineTrees] :
          parsed_docs = [i \in 1..n |-> [doc_id |-> DocKeys[i], rst |-> trees[i]]]
    /\ rows = <<>> /\ fl_doc = 0 /\ fl_pc = "loop" /\ edus_file = NoFile
    /\ edu_text \in PipelineTexts
    /\ pipe_k \in PipelineKs
    /\ pipe_metric \in {"cosine", "dot"}
    /\ pipe_seed \in Seeds
    /\ run_no = 1 /\ sklearn_kmeans = <<>> /\ first_run = <<>>
    /\ cli_model \in CliModels /\ st_loads = <<>> /\ cli_pc = "off" /\ exit_code = 0
    /\ EmbedIdle /\ ClusterIdle /\ AttachIdle /\ AggregateIdle /\ ParseIdle

SpecPipeline == PipelineInit /\ [][PipelineNext]_vars

\* ============================================================================ claims

\* The satellite of row i (1-based) names, by a non-empty parent_edu_id, the
\* edu_id of a member of some cluster of the input payload.
ParentIsClusteredNucleus(i) ==
    /\ index_satellite[i].parent_edu_id \notin {NoneVal, ""}
    /\ \E c \in 1..Len(clusters_in) : \E j \in 1..Len(clusters_in[c].members) :
          clusters_in[c].members[j].edu_id = index_satellite[i].parent_edu_id

\* Similarity of satellite row i with the centroid of the cluster at list
\* position c, under the metric of the run.
SimilarityTo(c, i) ==
    Similarity(Centroids(clusters_in, metric)[c], Scaled(satellite_vectors, metric)[i])

\* Strictly smaller similarity.
SimLess(a, b) == SimLeq(a, b) /\ ~SimLeq(b, a)

\* C1: a satellite whose parent_edu_id is present and is the edu_id of a
\* clustered nucleus is recorded with attachment "parent" and no score, under
\* either metric and whatever the vectors are.
Thm_C1_ParentLinkWins ==
    \A i \in 1..Len(assignments) :
        ParentIsClusteredNucleus(i) =>
            /\ assignments[i].edu_id = index_satellite[i].edu_id
            /\ assignments[i].attachment = "parent"
            /\ ~assignments[i].score.present

\* C1 witness: a satellite was attached through its parent to a cluster that is
\* not the nearest one (another centroid is strictly more similar).
Wit_C1 ==
    /\ at_pc = "done"
    /\ \E i \in 1..Len(assignments) :
          /\ ParentIsClusteredNucleus(i)
          /\ assignments[i].attachment = "parent"
          /\ \E c, d \in 1..Len(clusters_in) :
                /\ clusters_in[c].cluster_id = assignments[i].cluster_id
                /\ SimLess(SimilarityTo(c, i), SimilarityTo(d, i))

\* C2: with at least one cluster, a satellite whose parent_edu_id is absent,
\* empty or no clustered nucleus is recorded with attachment "nearest", the
\* cluster_id of a cluster of maximum similarity, and that similarity as score.
Thm_C2_NearestIsArgMax ==
    \A i \in 1..Len(assignments) :
        (Len(clusters_in) >= 1 /\ ~ParentIsClusteredNucleus(i)) =>
            /\ assignments[i].edu_id = index_satellite[i].edu_id
            /\ assignments[i].attachment = "nearest"
            /\ assignments[i].score.present
            /\ \E c \in 1..Len(clusters_in) :
                  /\ clusters_in[c].cluster_id = assignments[i].cluster_id
                  /\ assignments[i].score.value = SimilarityTo(c, i)
                  /\ \A d \in 1..Len(clusters_in) :
                        SimLeq(SimilarityTo(d, i), SimilarityTo(c, i))

\* C2 witness: a satellite naming an unclustered parent id went to the second
\* of two clusters, whose centroid is strictly nearer than the first one's.
Wit_C2 ==
    /\ at_pc = "done"
    /\ Len(clusters_in) = 2
    /\ \E i \in 1..Len(assignments) :
          /\ index_satellite[i].parent_edu_id = "e2"
          /\ ~ParentIsClusteredNucleus(i)
          /\ assignments[i].attachment = "nearest"
          /\ assignments[i].cluster_id = 1
          /\ SimLess(SimilarityTo(1, i), SimilarityTo(2, i))

\* C3: a run that completes wrote exactly one assignment per satellite
\* descriptor, in index order, each with the id of an existing cluster in
\* 0..k-1, and counts.satellites is the number of descriptors.
Thm_C3_OneAssignmentPerSatellite ==
    at_pc = "done" =>
        LET out == attach_file[1]
        IN  /\ Len(out.assignments) = Len(index_satellite)
            /\ out.counts.satellites = Len(index_satellite)
            /\ \A i \in 1..Len(out.assignments) :
                  /\ out.assignments[i].doc_id = index_satellite[i].doc_id
                  /\ out.assignments[i].edu_id = index_satellite[i].edu_id
                  /\ out.assignments[i].cluster_id \in 0..(Len(clusters_in) - 1)
                  /\ \E c \in 1..Len(out.clusters) :
                        out.clusters[c].cluster_id = out.assignments[i].cluster_id

\* C3 witness: a completed run over the largest index, one satellite attached
\* by parent and one by nearest centroid.
Wit_C3 ==
    /\ at_pc = "done"
    /\ Len(index_satellite) = MaxSatellites
    /\ \E i, j \in 1..Len(assignments) :
          assignments[i].attachment = "parent" /\ assignments[j].attachment = "nearest"

\* The records of asg with the given cluster_id, in order.
AssignedTo(asg, cluster_id) == SelectSeq(asg, LAMBDA a : a.cluster_id = cluster_id)

\* C4: each cluster's satellites list is exactly the assignments with that
\* cluster's id, in assignment order; every assignment is in the list of
\* exactly one cluster and the list lengths sum to the number of assignments.
Thm_C4_SatelliteListsMirrorAssignments ==
    /\ at_pc = "loop" =>
          \A c \in 1..Len(clusters) :
              clusters[c].satellites = AssignedTo(assignments, clusters[c].cluster_id)
    /\ at_pc = "done" =>
          LET out == attach_file[1]
          IN  /\ \A c \in 1..Len(out.clusters) :
                    out.clusters[c].satellites =
                        AssignedTo(out.assignments, out.clusters[c].cluster_id)
              /\ \A i \in 1..Len(out.assignments) :
                    Cardinality({c \in 1..Len(out.clusters) :
                        \E j \in 1..Len(out.clusters[c].satellites) :
                            out.clusters[c].satellites[j] = out.assignments[i]}) = 1
              /\ SumSeq([c \in 1..Len(out.clusters) |-> Len(out.clusters[c].satellites)])
                    = Len(out.assignments)

\* C4 witness: a completed run in which the second of two clusters holds
\* satellites and the first holds none or some.
Wit_C4 ==
    /\ at_pc = "done"
    /\ Len(attach_file[1].clusters) = 2
    /\ Len(attach_file[1].clusters[2].satellites) >= 1
    /\ Len(attach_file[1].assignments) = MaxSatellites

\* C5: with zero clusters and at least one satellite the run never completes
\* and never writes; it stops at the first satellite with the explicit error.
Thm_C5_NoClustersIsAnError ==
    (clusters_in = <<>> /\ Len(index_satellite) >= 1) =>
        /\ at_pc \in {"loop", "error"}
        /\ attach_file = NoFile
        /\ assignments = <<>>
        /\ idx = 0
        /\ at_pc = "error" => at_error = "Cannot attach satellites without clusters."

\* C5 witness: the error was raised for a satellite that names a parent.
Wit_C5 ==
    /\ at_pc = "error"
    /\ clusters_in = <<>>
    /\ index_satellite[1].parent_edu_id = "e1"
    /\ at_error = "Cannot attach satellites without clusters."

\* C6: a successful run partitions the nuclei: every row index 0..n-1 is a
\* member of exactly one cluster, size is the member count, sizes sum to n.
Thm_C6_ClustersPartitionNuclei ==
    cl_pc = "done" =>
        LET out == clusters_file[1]
            n   == Len(nucleus_meta)
        IN  /\ \A r \in 0..(n - 1) :
                  Cardinality({ <<c, j>> \in (1..Len(out.clusters)) \X (1..n) :
                      /\ j <= Len(out.clusters[c].members)
                      /\ out.clusters[c].members[j].index = r }) = 1
            /\ \A c \in 1..Len(out.clusters) :
                  /\ out.clusters[c].size = Len(out.clusters[c].members)
                  /\ \A j \in 1..Len(out.clusters[c].members) :
                        /\ out.clusters[c].members[j].index \in 0..(n - 1)
                        /\ out.clusters[c].members[j].edu_id =
                              nucleus_meta[out.clusters[c].members[j].index + 1].edu_id
            /\ SumSeq([c \in 1..Len(out.clusters) |-> out.clusters[c].size]) = n
            /\ out.counts.nucleus = n

\* C6 witness: a successful run with two clusters, both non-empty.
Wit_C6 ==
    /\ cl_pc = "done"
    /\ k = 2
    /\ clusters_file[1].clusters[1].size >= 1
    /\ clusters_file[1].clusters[2].size >= 1

\* C7: a successful run writes exactly k clusters with ids 0, 1, ..., k-1 in
\* ascending order and counts.clusters = k; with k = 1 the single cluster
\* holds all nuclei.
Thm_C7_ContiguousClusterIds ==
    cl_pc = "done" =>
        LET out == clusters_file[1]
        IN  /\ Len(out.clusters) = k
            /\ out.counts.clusters = k
            /\ \A c \in 1..Len(out.clusters) : out.clusters[c].cluster_id = c - 1
            /\ k = 1 =>
                  /\ out.clusters[1].size = Len(nucleus_meta)
                  /\ \A r \in 1..Len(nucleus_meta) : out.clusters[1].members[r].index = r - 1

\* C7 witness: a successful run with as many clusters as there are nuclei.
Wit_C7 ==
    /\ cl_pc = "done"
    /\ k = MaxNuclei
    /\ Len(clusters_file[1].clusters) = MaxNuclei

\* C8: an empty nucleus matrix, k <= 0 and k > number of nuclei are each
\* rejected before KMeans runs and without an output file; on a non-empty
\* matrix the error names the violated bound of k.
Thm_C8_PreconditionsFailFast ==
    (VectorsSize(vectors_shape) = 0 \/ k <= 0 \/ k > Len(nucleus_meta)) =>
        /\ cl_pc \in {"check", "error"}
        /\ labels = <<>> /\ centroid_vectors = <<>> /\ cl_clusters = <<>>
        /\ clusters_file = NoFile
        /\ cl_pc = "error" =>
              /\ VectorsSize(vectors_shape) = 0 =>
                    cl_error = "No nucleus embeddings available to cluster."
              /\ (VectorsSize(vectors_shape) # 0 /\ k <= 0) =>
                    cl_error = "k must be greater than zero."
              /\ (VectorsSize(vectors_shape) # 0 /\ k > Len(nucleus_meta)) =>
                    cl_error = "k exceeds number of nuclei"

\* C8 witness: k one above the number of nuclei was rejected.
Wit_C8 ==
    /\ cl_pc = "error"
    /\ Len(nucleus_meta) >= 1
    /\ k = Len(nucleus_meta) + 1
    /\ cl_error = "k exceeds number of nuclei"

\* Number of EDUs of the first n input documents.
EdusBefore(n) == SumSeq([d \in 1..n |-> Len(parsed_docs[d].rst.edus)])

\* C9: a completed run wrote one record per input EDU, documents in input
\* order and, within a document, in the order of the tree's EDU list.
Thm_C9_OneRecordPerEdu ==
    fl_pc = "done" =>
        LET out == edus_file[1]
        IN  /\ Len(out) = EdusBefore(Len(parsed_docs))
            /\ \A d \in 1..Len(parsed_docs) :
                  \A i \in 1..Len(parsed_docs[d].rst.edus) :
                      /\ out[EdusBefore(d - 1) + i].doc_id = parsed_docs[d].doc_id
                      /\ out[EdusBefore(d - 1) + i].edu_id = parsed_docs[d].rst.edus[i]

\* C9 witness: two documents were flattened, the first with a repeated EDU id.
Wit_C9 ==
    /\ fl_pc = "done"
    /\ Len(parsed_docs) = 2
    /\ parsed_docs[1].rst.edus = <<"e1", "e1">>
    /\ parsed_docs[2].rst.edus = <<"e2", "e1">>
    /\ Len(edus_file[1]) = 4

\* Number of records of document d, in the written file, with is_root = true.
RootRecords(d) ==
    Cardinality({i \in 1..Len(edus_file[1]) :
        edus_file[1][i].doc_id = parsed_docs[d].doc_id /\ edus_file[1][i].is_root})

\* Number of EDUs of document d whose id is the tree's declared root_edu.
RootNamed(d) ==
    Cardinality({i \in 1..Len(parsed_docs[d].rst.edus) :
        parsed_docs[d].rst.edus[i] = parsed_docs[d].rst.root_edu})

\* C10 as stated: exactly one record per document has is_root = true, for
\* every accepted tree.
CE_C10_ExactlyOneRootPerDocument ==
    fl_pc = "done" => \A d \in 1..Len(parsed_docs) : RootRecords(d) = 1

\* C10 amended: a document has as many is_root records as it has EDUs whose id
\* is the declared root_edu: one when root_edu names exactly one EDU, none when
\* root_edu is absent or names no EDU, several when the root id is repeated.
Thm_C10_RootRecordsFollowRootEdu ==
    fl_pc = "done" =>
        \A d \in 1..Len(parsed_docs) :
            /\ RootRecords(d) = RootNamed(d)
            /\ parsed_docs[d].rst.root_edu = NoneVal => RootRecords(d) = 0
            /\ RootNamed(d) = 1 <=> RootRecords(d) = 1

\* C10 witness: one document with exactly one root record next to one whose
\* tree declares no root and so has none.
Wit_C10 ==
    /\ fl_pc = "done"
    /\ Len(parsed_docs) = 2
    /\ parsed_docs[1].rst.root_edu = "e1" /\ RootRecords(1) = 1
    /\ parsed_docs[2].rst.root_edu = NoneVal
    /\ Len(parsed_docs[2].rst.edus) = 2 /\ RootRecords(2) = 0

\* The record written for the i-th EDU of document d.
RecordOf(d, i) == edus_file[1][EdusBefore(d - 1) + i]

\* C11 as stated: every written record with is_root = true has parent_edu_id
\* and relation absent and nuclearity "nucleus", also when a relation of the
\* tree has the declared root as its child.
CE_C11_RootHasNoParentNoRelation ==
    fl_pc = "done" =>
        \A r \in 1..Len(edus_file[1]) :
            edus_file[1][r].is_root =>
                /\ edus_file[1][r].parent_edu_id = NoneVal
                /\ edus_file[1][r].relation = NoneVal
                /\ edus_file[1][r].nuclearity = "nucleus"

\* C12 as stated: every written record's parent_edu_id is absent or is the
\* edu_id of another record of the same document.
CE_C12_ParentIsARecordOfTheDocument ==
    fl_pc = "done" =>
        \A r \in 1..Len(edus_file[1]) :
            \/ edus_file[1][r].parent_edu_id = NoneVal
            \/ \E q \in 1..Len(edus_file[1]) :
                  /\ q # r
                  /\ edus_file[1][q].doc_id = edus_file[1][r].doc_id
                  /\ edus_file[1][q].edu_id = edus_file[1][r].parent_edu_id

\* A tree with a repeated EDU id, or with a relation whose child is no EDU.
Malformed(tree) ==
    \/ \E i, j \in 1..Len(tree.edus) : i # j /\ tree.edus[i] = tree.edus[j]
    \/ \E r \in 1..Len(tree.relations) :
          \A i \in 1..Len(tree.edus) : tree.edus[i] # tree.relations[r].child_id

\* C13 as stated: a malformed tree is rejected: the loop never gets past it,
\* no record of its document is emitted and no file is written.
CE_C13_MalformedTreeIsRejected ==
    \A d \in 1..Len(parsed_docs) :
        Malformed(parsed_docs[d].rst) =>
            /\ fl_doc < d
            /\ \A r \in 1..Len(rows) : rows[r].doc_id # parsed_docs[d].doc_id
            /\ edus_file = NoFile

\* C14: the output file exists only once every document was validated and
\* flattened; when a validation raises, no file is written, whatever rows
\* earlier documents have produced.
Thm_C14_AllOrNothing ==
    /\ edus_file # NoFile =>
          /\ fl_pc = "done"
          /\ fl_doc = Len(parsed_docs)
          /\ \A d \in 1..Len(parsed_docs) : parsed_docs[d].rst.valid
          /\ Len(edus_file[1]) = EdusBefore(Len(parsed_docs))
    /\ (\E d \in 1..Len(parsed_docs) : ~parsed_docs[d].rst.valid) =>
          /\ edus_file = NoFile
          /\ fl_pc \in {"loop", "error"}

\* C14 witness: the second document failed validation after the first one had
\* produced rows; nothing was written.
Wit_C14 ==
    /\ fl_pc = "error"
    /\ fl_doc = 1
    /\ Len(rows) = MaxEdus
    /\ edus_file = NoFile

\* C15: the record of an EDU takes nuclearity, relation and parent_edu_id from
\* the relation of its tree with that child (the last one of the list when
\* several have it), is a parentless nucleus without relation when there is
\* none, and is_root holds exactly when the EDU id is the declared root_edu.
Thm_C15_RecordFollowsRelation ==
    fl_pc = "done" =>
        \A d \in 1..Len(parsed_docs) :
            \A i \in 1..Len(parsed_docs[d].rst.edus) :
                LET tree == parsed_docs[d].rst
                    rec  == RecordOf(d, i)
                    hits == {j \in 1..Len(tree.relations) :
                                tree.relations[j].child_id = tree.edus[i]}
                IN  /\ rec.edu_id = tree.edus[i]
                    /\ rec.is_root <=> (tree.edus[i] = tree.root_edu)
                    /\ hits = {} =>
                          /\ rec.nuclearity = "nucleus"
                          /\ rec.relation = NoneVal
                          /\ rec.parent_edu_id = NoneVal
                    /\ hits # {} =>
                          \E j \in hits :
                              /\ \A h \in hits : h <= j
                              /\ rec.nuclearity = tree.relations[j].nuclearity
                              /\ rec.relation = tree.relations[j].relation
                              /\ rec.parent_edu_id = tree.relations[j].parent_id

\* C15 witness: a document whose first EDU is a satellite by its relation and
\* whose second EDU, without relation, is the root nucleus.
Wit_C15 ==
    /\ fl_pc = "done"
    /\ Len(parsed_docs) >= 1
    /\ parsed_docs[1].rst.edus = <<"e1", "e2">>
    /\ parsed_docs[1].rst.root_edu = "e2"
    /\ Len(parsed_docs[1].rst.relations) = 2
    /\ RecordOf(1, 1).nuclearity = "satellite"
    /\ RecordOf(1, 1).parent_edu_id = "e2"
    /\ RecordOf(1, 2).nuclearity = "nucleus"
    /\ RecordOf(1, 2).is_root

\* Positions of the rows of one category in the flat table, and the rank of
\* such a row within its category.
RowsOf(cat) == {i \in 1..Len(embed_rows) : embed_rows[i].nuclearity = cat}
RankIn(cat, i) == Cardinality({j \in RowsOf(cat) : j <= i})

\* C16: the index written by embed_edus partitions the table by nuclearity:
\* the r-th descriptor of a category describes the r-th row of the table with
\* that nuclearity and row r of the category's matrix is the embedding of that
\* row's text; counts.nucleus + counts.satellite is the number of input rows.
Thm_C16_PartitionByNuclearity ==
    em_pc = "done" =>
        LET out == index_file[1]
        IN  /\ Len(out.nucleus) = Cardinality(RowsOf("nucleus"))
            /\ Len(out.satellite) = Cardinality(RowsOf("satellite"))
            /\ out.counts.nucleus = Len(out.nucleus)
            /\ out.counts.satellite = Len(out.satellite)
            /\ out.counts.nucleus + out.counts.satellite = Len(embed_rows)
            /\ nucleus_npy[1].shape[1] = Len(out.nucleus)
            /\ satellite_npy[1].shape[1] = Len(out.satellite)
            /\ \A i \in RowsOf("nucleus") :
                  LET r == RankIn("nucleus", i)
                  IN  /\ out.nucleus[r].doc_id = embed_rows[i].doc_id
                      /\ out.nucleus[r].edu_id = embed_rows[i].edu_id
                      /\ out.nucleus[r].is_root = embed_rows[i].is_root
                      /\ out.nucleus[r].relation = embed_rows[i].relation
                      /\ nucleus_npy[1].data[r] =
                            EmbedderEncodeOne(embed_rows[i].text, embedder_dim)
            /\ \A i \in RowsOf("satellite") :
                  LET r == RankIn("satellite", i)
                  IN  /\ out.satellite[r].doc_id = embed_rows[i].doc_id
                      /\ out.satellite[r].edu_id = embed_rows[i].edu_id
                      /\ out.satellite[r].parent_edu_id = embed_rows[i].parent_edu_id
                      /\ satellite_npy[1].data[r] =
                            EmbedderEncodeOne(embed_rows[i].text, embedder_dim)

\* C16 witness: a table nucleus, satellite, nucleus with different texts was
\* indexed: the second nucleus descriptor is the third row.
Wit_C16 ==
    /\ em_pc = "done"
    /\ Len(embed_rows) = 3
    /\ embed_rows[1].nuclearity = "nucleus"
    /\ embed_rows[2].nuclearity = "satellite"
    /\ embed_rows[3].nuclearity = "nucleus"
    /\ embed_rows[1].text # embed_rows[3].text
    /\ index_file[1].nucleus[2].edu_id = "e3"
    /\ index_file[1].counts.satellite = 1

\* The batch of texts of one category, read off the flat table.
CategoryTexts(cat) ==
    LET n == Cardinality(RowsOf(cat))
    IN  [r \in 1..n |-> embed_rows[CHOOSE i \in RowsOf(cat) : RankIn(cat, i) = r].text]
ExpectedCalls(cat) == IF RowsOf(cat) = {} THEN <<>> ELSE <<CategoryTexts(cat)>>

\* C17: an empty category is accepted: the embedder is not called for it (so
\* it cannot fail on it), its matrix has zero rows and its descriptor list is
\* empty; the embedder is called exactly once per non-empty category, with
\* all the texts of the category; the index dimension is the embedder's
\* dimension when a category is non-empty and 0 when both are empty.
Thm_C17_EmptyCategoryAccepted ==
    /\ em_pc = "error" => embed_rows # <<>>
    /\ em_pc \in {"save_nucleus", "save_satellite", "write_index", "done"} =>
          encode_calls = ExpectedCalls("nucleus") \o ExpectedCalls("satellite")
    /\ em_pc = "done" =>
          LET out == index_file[1]
          IN  /\ RowsOf("nucleus") = {} =>
                    /\ nucleus_npy[1].shape[1] = 0
                    /\ nucleus_npy[1].data = <<>>
                    /\ out.nucleus = <<>>
              /\ RowsOf("satellite") = {} =>
                    /\ satellite_npy[1].shape[1] = 0
                    /\ satellite_npy[1].data = <<>>
                    /\ out.satellite = <<>>
              /\ RowsOf("nucleus") # {} =>
                    nucleus_npy[1].shape = <<Cardinality(RowsOf("nucleus")), embedder_dim>>
              /\ RowsOf("satellite") # {} =>
                    satellite_npy[1].shape = <<Cardinality(RowsOf("satellite")), embedder_dim>>
              /\ out.dimension = IF embed_rows = <<>> THEN 0 ELSE embedder_dim

\* C17 witness: a table of satellites only was embedded: one embedder call,
\* a zero-row nucleus matrix, the dimension taken from the satellite matrix.
Wit_C17 ==
    /\ em_pc = "done"
    /\ RowsOf("nucleus") = {}
    /\ Len(embed_rows) = 2
    /\ Len(encode_calls) = 1
    /\ nucleus_npy[1] = ZeroMatrix
    /\ index_file[1].dimension = embedder_dim
    /\ embedder_dim = 3

\* C18 as stated: when the embedder raises none of the three files is written,
\* and in no state is a matrix of the run persisted without its index.
CE_C18_NoMatrixWithoutIndex ==
    /\ em_pc = "error" =>
          nucleus_npy = NoFile /\ satellite_npy = NoFile /\ index_file = NoFile
    /\ (nucleus_npy # NoFile \/ satellite_npy # NoFile) => index_file # NoFile

\* C18 amended: when the embedder raises, on either batch, none of the three
\* files is written; a matrix is persisted only after both batches were
\* encoded, the index only after both matrices, and a completed run has
\* written all three.
Thm_C18_EmbedderErrorWritesNothing ==
    /\ em_pc = "error" =>
          nucleus_npy = NoFile /\ satellite_npy = NoFile /\ index_file = NoFile
    /\ (nucleus_npy # NoFile \/ satellite_npy # NoFile) =>
          em_pc \in {"save_satellite", "write_index", "done"}
    /\ satellite_npy # NoFile => nucleus_npy # NoFile
    /\ index_file # NoFile <=> em_pc = "done"
    /\ em_pc = "done" => nucleus_npy # NoFile /\ satellite_npy # NoFile

\* C18 witness: the embedder raised on the satellite batch after the nucleus
\* batch had been encoded; no file was written.
Wit_C18 ==
    /\ em_pc = "error"
    /\ Len(encode_calls) = 2
    /\ nucleus_vectors # ZeroMatrix
    /\ nucleus_npy = NoFile /\ satellite_npy = NoFile /\ index_file = NoFile

\* The cluster of the input payload with the given id.
InputCluster(id) == agg_clusters_in[id + 1]

\* C19: the snapshot lists every cluster of the payload once, in descending
\* commonality, ties by descending satellite_count, and clusters equal on
\* both in their order in the input payload.
Thm_C19_SnapshotOrder ==
    agg_pc = "done" =>
        LET out == snapshot_file[1].clusters
        IN  /\ Len(out) = Len(agg_clusters_in)
            /\ {out[i].cluster_id : i \in 1..Len(out)} =
                  {agg_clusters_in[i].cluster_id : i \in 1..Len(agg_clusters_in)}
            /\ \A i, j \in 1..Len(out) :
                  i < j =>
                     /\ out[i].commonality >= out[j].commonality
                     /\ out[i].commonality = out[j].commonality =>
                           out[i].satellite_count >= out[j].satellite_count
                     /\ (/\ out[i].commonality = out[j].commonality
                         /\ out[i].satellite_count = out[j].satellite_count) =>
                           out[i].cluster_id < out[j].cluster_id

\* C19 witness: three clusters of one member each; the first has no
\* satellite, the other two have one: they move ahead and keep their order.
Wit_C19 ==
    /\ agg_pc = "done"
    /\ Len(snapshot_file[1].clusters) = 3
    /\ snapshot_file[1].clusters[1].cluster_id = 1
    /\ snapshot_file[1].clusters[2].cluster_id = 2
    /\ snapshot_file[1].clusters[3].cluster_id = 0
    /\ snapshot_file[1].clusters[1].commonality = 1
    /\ snapshot_file[1].clusters[3].commonality = 1
    /\ snapshot_file[1].clusters[2].satellite_count = 1
    /\ snapshot_file[1].clusters[3].satellite_count = 0

\* C20: in the snapshot, counts.clusters is the number of clusters of the
\* input payload, counts.total_nuclei the sum of the clusters' commonality,
\* counts.total_satellites the sum of their satellite_count, and a cluster's
\* commonality is the number of members of that cluster in the payload.
Thm_C20_SnapshotCounts ==
    agg_pc = "done" =>
        LET out == snapshot_file[1]
            n   == Len(out.clusters)
        IN  /\ out.counts.clusters = Len(agg_clusters_in)
            /\ out.counts.total_nuclei =
                  SumSeq([i \in 1..n |-> out.clusters[i].commonality])
            /\ out.counts.total_satellites =
                  SumSeq([i \in 1..n |-> out.clusters[i].satellite_count])
            /\ \A i \in 1..n :
                  /\ out.clusters[i].commonality =
                        Len(InputCluster(out.clusters[i].cluster_id).members)
                  /\ out.clusters[i].commonality = Len(out.clusters[i].nuclei)

\* C20 witness: two clusters with three members together, one of them
\* without a row in the flat table, and three satellites.
Wit_C20 ==
    /\ agg_pc = "done"
    /\ Len(agg_clusters_in) = 2
    /\ snapshot_file[1].counts.clusters = 2
    /\ snapshot_file[1].counts.total_nuclei = 3
    /\ snapshot_file[1].counts.total_satellites = 3
    /\ \E i \in 1..2 : \E m \in 1..Len(snapshot_file[1].clusters[i].nuclei) :
          snapshot_file[1].clusters[i].nuclei[m].text = NoneVal

\* The text the flat table gives for (doc_id, edu_id): that of the last row
\* with this key, None when no row has it.
FlatText(d, e) ==
    LET hits == {i \in 1..Len(agg_flat) :
                    agg_flat[i].doc_id = d /\ agg_flat[i].edu_id = e}
    IN  IF hits = {} THEN NoneVal
        ELSE agg_flat[CHOOSE i \in hits : \A h \in hits : h <= i].text
MemberText(cl, m) == FlatText(cl.members[m].doc_id, cl.members[m].edu_id)

\* C21 as stated: the headline is the text of the first member flagged
\* is_root whose text the lookup found (a row with that key exists), else
\* the text of the first member if the lookup found one, else absent.
CE_C21_HeadlineOfFirstRootFound ==
    agg_pc = "done" =>
        \A c \in 1..Len(snapshot_file[1].clusters) :
            LET out   == snapshot_file[1].clusters[c]
                cl    == InputCluster(out.cluster_id)
                roots == {m \in 1..Len(cl.members) :
                             cl.members[m].is_root /\ MemberText(cl, m) # NoneVal}
            IN  IF roots # {}
                THEN out.headline = MemberText(cl, CHOOSE m \in roots : \A r \in roots : m <= r)
                ELSE IF cl.members # <<>> /\ MemberText(cl, 1) # NoneVal
                     THEN out.headline = MemberText(cl, 1)
                     ELSE out.headline = NoneVal

\* C21 amended: the headline is the text of the first member flagged is_root
\* whose looked-up text is non-empty, else the text of the first member when
\* that is non-empty, else absent; a text that is found but empty counts as
\* no text.
Thm_C21_HeadlineOfFirstRootWithText ==
    agg_pc = "done" =>
        \A c \in 1..Len(snapshot_file[1].clusters) :
            LET out   == snapshot_file[1].clusters[c]
                cl    == InputCluster(out.cluster_id)
                roots == {m \in 1..Len(cl.members) :
                             cl.members[m].is_root /\ MemberText(cl, m) \notin {NoneVal, ""}}
            IN  IF roots # {}
                THEN out.headline = MemberText(cl, CHOOSE m \in roots : \A r \in roots : m <= r)
                ELSE IF cl.members # <<>> /\ MemberText(cl, 1) \notin {NoneVal, ""}
                     THEN out.headline = MemberText(cl, 1)
                     ELSE out.headline = NoneVal

\* C21 witness: a cluster whose first member is not the root and has a text,
\* and whose second member is a root with a text: the headline is the
\* root's text.
Wit_C21 ==
    /\ agg_pc = "done"
    /\ \E c \in 1..Len(snapshot_file[1].clusters) :
          LET out == snapshot_file[1].clusters[c]
          IN  /\ Len(out.nuclei) = 2
              /\ ~out.nuclei[1].is_root /\ out.nuclei[1].text = "t2"
              /\ out.nuclei[2].is_root /\ out.nuclei[2].text = "t3"
              /\ out.headline = "t3"

\* The bucket label of the j-th satellite of a cluster of the payload.
LabelOf(cl, j) ==
    IF cl.satellites[j].relation \in {NoneVal, ""} THEN "unspecified"
    ELSE cl.satellites[j].relation
SatsWithLabel(cl, label) == {j \in 1..Len(cl.satellites) : LabelOf(cl, j) = label}

\* C22: every satellite of a cluster is in exactly one bucket, that of its
\* relation label or "unspecified" when the label is absent or empty, in the
\* order of the cluster's satellites list within the bucket and with the
\* text the flat table has for it; satellite_count is the number of
\* satellites of the cluster in the input payload.
Thm_C22_SatellitesBucketedByRelation ==
    agg_pc = "done" =>
        \A c \in 1..Len(snapshot_file[1].clusters) :
            LET out     == snapshot_file[1].clusters[c]
                cl      == InputCluster(out.cluster_id)
                buckets == out.satellites_by_relation
            IN  /\ out.satellite_count = Len(cl.satellites)
                /\ DOMAIN buckets = {LabelOf(cl, j) : j \in 1..Len(cl.satellites)}
                /\ \A label \in DOMAIN buckets :
                      Len(buckets[label]) = Cardinality(SatsWithLabel(cl, label))
                /\ \A j \in 1..Len(cl.satellites) :
                      LET label == LabelOf(cl, j)
                          r == Cardinality({i \in SatsWithLabel(cl, label) : i <= j})
                      IN  /\ buckets[label][r].doc_id = cl.satellites[j].doc_id
                          /\ buckets[label][r].edu_id = cl.satellites[j].edu_id
                          /\ buckets[label][r].attachment = cl.satellites[j].attachment
                          /\ buckets[label][r].text =
                                FlatText(cl.satellites[j].doc_id, cl.satellites[j].edu_id)

\* C22 witness: a cluster with satellites s2 (no label), s1 (elaboration) and
\* s3 (empty label): two buckets, "unspecified" holding s2 then s3.
Wit_C22 ==
    /\ agg_pc = "done"
    /\ \E c \in 1..Len(snapshot_file[1].clusters) :
          LET out == snapshot_file[1].clusters[c]
          IN  /\ out.satellite_count = 3
              /\ DOMAIN out.satellites_by_relation = {"unspecified", "elaboration"}
              /\ Len(out.satellites_by_relation["unspecified"]) = 2
              /\ out.satellites_by_relation["unspecified"][1].edu_id = "s2"
              /\ out.satellites_by_relation["unspecified"][2].edu_id = "s3"
              /\ out.satellites_by_relation["unspecified"][1].text = "t5"

\* C27 as stated: a satellite attached via "parent" is in a cluster that
\* holds the nucleus of the satellite's own document whose edu_id is the
\* satellite's parent_edu_id.
CE_C27_ParentIsOfOwnDocument ==
    \A i \in 1..Len(assignments) :
        assignments[i].attachment = "parent" =>
            \E c \in 1..Len(clusters_in) :
                /\ clusters_in[c].cluster_id = assignments[i].cluster_id
                /\ \E j \in 1..Len(clusters_in[c].members) :
                      /\ clusters_in[c].members[j].doc_id = assignments[i].doc_id
                      /\ clusters_in[c].members[j].edu_id = assignments[i].parent_edu_id

\* C28: a satellite attached via "nearest" gets the id of the cluster at the
\* first list position whose centroid reaches the maximum similarity (for
\* ids 0..k-1 in list order: the lowest id among the tied clusters), and its
\* record is in the satellites list of that cluster and of no other.
Thm_C28_NearestGoesToFirstMaximum ==
    \A i \in 1..Len(assignments) :
        assignments[i].attachment = "nearest" =>
            LET pos == assignments[i].cluster_id + 1
            IN  /\ pos \in 1..Len(clusters_in)
                /\ clusters_in[pos].cluster_id = assignments[i].cluster_id
                /\ \A d \in 1..Len(clusters_in) :
                      SimLeq(SimilarityTo(d, i), SimilarityTo(pos, i))
                /\ \A d \in 1..(pos - 1) :
                      SimLess(SimilarityTo(d, i), SimilarityTo(pos, i))
                /\ \A c \in 1..Len(clusters) :
                      (\E j \in 1..Len(clusters[c].satellites) :
                            clusters[c].satellites[j] = assignments[i])
                      <=> c = pos

\* C28 witness: the centroids of clusters 0 and 1 are equally similar to a
\* satellite attached via "nearest"; it is in the list of cluster 0.
Wit_C28 ==
    /\ at_pc = "done"
    /\ Len(clusters_in) = 2
    /\ \E i \in 1..Len(assignments) :
          /\ assignments[i].attachment = "nearest"
          /\ SimLeq(SimilarityTo(1, i), SimilarityTo(2, i))
          /\ SimLeq(SimilarityTo(2, i), SimilarityTo(1, i))
          /\ assignments[i].cluster_id = 0
          /\ attach_file[1].clusters[1].satellites # <<>>
          /\ attach_file[1].clusters[2].satellites = <<>>

\* C29: in memory and in the payload written, the clusters are those of the
\* input payload in the same order, with cluster_id, size, centroid and
\* members unchanged under either metric; only the satellites list is added.
Thm_C29_ClustersKeptButForSatellites ==
    /\ Len(clusters) = Len(clusters_in)
    /\ \A c \in 1..Len(clusters) :
          /\ DOMAIN clusters[c] = {"cluster_id", "size", "centroid", "members", "satellites"}
          /\ clusters[c].cluster_id = clusters_in[c].cluster_id
          /\ clusters[c].size = clusters_in[c].size
          /\ clusters[c].centroid = clusters_in[c].centroid
          /\ clusters[c].members = clusters_in[c].members
    /\ at_pc = "done" =>
          /\ Len(attach_file[1].clusters) = Len(clusters_in)
          /\ \A c \in 1..Len(clusters_in) :
                /\ attach_file[1].clusters[c].cluster_id = clusters_in[c].cluster_id
                /\ attach_file[1].clusters[c].size = clusters_in[c].size
                /\ attach_file[1].clusters[c].centroid = clusters_in[c].centroid
                /\ attach_file[1].clusters[c].members = clusters_in[c].members

\* C29 witness: under the cosine metric a satellite was attached via
\* "nearest" to a cluster whose centroid <<3, 0>> is not of unit length; the
\* payload written still has that centroid.
Wit_C29 ==
    /\ at_pc = "done"
    /\ metric = "cosine"
    /\ \E c \in 1..Len(clusters_in) :
          /\ clusters_in[c].centroid = <<3, 0>>
          /\ attach_file[1].clusters[c].centroid = <<3, 0>>
          /\ \E j \in 1..Len(attach_file[1].clusters[c].satellites) :
                attach_file[1].clusters[c].satellites[j].attachment = "nearest"

\* C26: parse_corpus writes its output only when every document was parsed
\* into a schema-valid tree: then the file has one row per input document, in
\* input order, with the document's doc_id and topic_id, the parser's name
\* and a tree with every schema field; a result that fails validation raises
\* a ValueError naming the document, and no file is written.
Thm_C26_ParseAllOrNothing ==
    /\ rst_file # NoFile <=> pr_pc = "done"
    /\ pr_pc = "done" =>
          /\ Len(rst_file[1]) = Len(documents)
          /\ \A i \in 1..Len(documents) :
                /\ rst_file[1][i].doc_id = documents[i].doc_id
                /\ rst_file[1][i].topic_id = documents[i].topic_id
                /\ rst_file[1][i].parser.name = parser_name
                /\ DOMAIN rst_file[1][i].rst = {"edus", "relations", "root_edu"}
                /\ \A r \in 1..Len(rst_file[1][i].rst.relations) :
                      rst_file[1][i].rst.relations[r].nuclearity \in {"nucleus", "satellite"}
    /\ pr_pc = "error" =>
          /\ rst_file = NoFile
          /\ pr_error.kind = "ValueError" =>
                /\ pr_error.doc_id = documents[pr_idx + 1].doc_id
                /\ Len(pr_rows) = pr_idx

\* C26 witness: the result for the second document failed validation after
\* the first had been parsed: the error names d2 and nothing is written.
Wit_C26 ==
    /\ pr_pc = "error"
    /\ pr_error.kind = "ValueError"
    /\ pr_error.doc_id = "d2"
    /\ Len(pr_rows) = 1
    /\ rst_file = NoFile

\* C25 as stated: the embed command run with --model stub never constructs
\* the external sentence-transformer model, and it exits with code 0 with
\* both matrices and the index written.
CE_C25_StubModelNeedsNoExternalModel ==
    cli_model = "stub" =>
        /\ st_loads = <<>>
        /\ cli_pc = "exited" =>
              /\ exit_code = 0
              /\ nucleus_npy # NoFile /\ satellite_npy # NoFile /\ index_file # NoFile

\* ------------------------------------------------------------------ C23
\* The tree has one nucleus, its root, and one satellite whose parent is
\* that nucleus.
RootWithOneSatellite(tree) ==
    /\ Len(tree.edus) = 2 /\ Len(tree.relations) = 1
    /\ tree.relations[1].nuclearity = "satellite"
    /\ tree.relations[1].parent_id = tree.root_edu
    /\ tree.relations[1].child_id # tree.root_edu
    /\ {tree.edus[1], tree.edus[2]} = {tree.root_edu, tree.relations[1].child_id}

\* The end-to-end scenario: two such documents, their nuclei differing in
\* text, and k = 2.
ScenarioTwoDocuments ==
    /\ Len(parsed_docs) = 2
    /\ \A d \in 1..2 : RootWithOneSatellite(parsed_docs[d].rst)
    /\ edu_text[<<"d1", parsed_docs[1].rst.root_edu>>]
          # edu_text[<<"d2", parsed_docs[2].rst.root_edu>>]
    /\ pipe_k = 2

\* C23: in the end-to-end scenario the finished pipeline leaves two clusters,
\* each with exactly one nucleus and exactly one satellite, every satellite
\* attached via "parent"; the snapshot counts two clusters and the headline of
\* each cluster is the text of its nucleus.
CE_C23_TwoDocumentsTwoClusters ==
    (ScenarioTwoDocuments /\ agg_pc = "done") =>
        LET snapshot == snapshot_file[1]
            attached == attach_file[1]
        IN  /\ snapshot.counts.clusters = 2
            /\ Len(snapshot.clusters) = 2
            /\ \A c \in 1..Len(attached.clusters) :
                  /\ Len(attached.clusters[c].members) = 1
                  /\ Len(attached.clusters[c].satellites) = 1
                  /\ attached.clusters[c].satellites[1].attachment = "parent"
            /\ \A c \in 1..Len(snapshot.clusters) :
                  /\ Len(snapshot.clusters[c].nuclei) = 1
                  /\ snapshot.clusters[c].satellite_count = 1
                  /\ snapshot.clusters[c].headline = snapshot.clusters[c].nuclei[1].text

\* ------------------------------------------------------------------ C24
\* C24: in a second run on the same inputs, with the same embedder and the
\* same seed, every stage that has finished has written the file the first
\* run wrote: the same table, vectors and index, the same cluster membership,
\* the same satellite assignments in the same order, the same snapshot with
\* its clusters in the same order, whatever the first run has left on disk.
Thm_C24_RerunReproducesFirstRun ==
    (run_no = 2 /\ pipe_seed = first_run[1].seed) =>
        /\ fl_pc = "done" => edus_file = first_run[1].files.edus
        /\ em_pc = "done" => /\ nucleus_npy = first_run[1].files.nucleus_npy
                             /\ satellite_npy = first_run[1].files.satellite_npy
                             /\ index_file = first_run[1].files.index
        /\ cl_pc = "done" => clusters_file = first_run[1].files.clusters
        /\ at_pc = "done" => attach_file = first_run[1].files.attach
        /\ agg_pc = "done" => snapshot_file = first_run[1].files.snapshot

\* A second run with another seed has clustered the same nuclei differently:
\* the seed is what the membership of the rerun rests on.
OtherSeedOtherMembership ==
    /\ run_no = 2 /\ cl_pc = "done"
    /\ pipe_seed # first_run[1].seed
    /\ clusters_file # first_run[1].files.clusters

\* The second run has finished on two clusters, with a satellite attached
\* through its parent and one attached to the nearest centroid.
Wit_C24 ==
    /\ run_no = 2 /\ agg_pc = "done"
    /\ pipe_seed = first_run[1].seed
    /\ Len(sklearn_kmeans) = 1
    /\ Len(clusters_file[1].clusters) = 2
    /\ \E i, j \in 1..Len(attach_file[1].assignments) :
          /\ attach_file[1].assignments[i].attachment = "parent"
          /\ attach_file[1].assignments[j].attachment = "nearest"

\* ------------------------------------------------------------------ C30
\* Rows of the flat table with that key and nuclearity.
RowsWith(table, doc_id, edu_id, nuclearity) ==
    Len(SelectSeq(table, LAMBDA row : /\ row.doc_id = doc_id /\ row.edu_id = edu_id
                                      /\ row.nuclearity = nuclearity))

\* Rows of the flat table with that nuclearity.
RowsOfNuclearity(table, nuclearity) ==
    Len(SelectSeq(table, LAMBDA row : row.nuclearity = nuclearity))

\* Entries of the snapshot with that key among the nuclei of its clusters.
NucleusOccurrences(snapshot, doc_id, edu_id) ==
    SumSeq([c \in 1..Len(snapshot.clusters) |->
               Len(SelectSeq(snapshot.clusters[c].nuclei,
                             LAMBDA entry : entry.doc_id = doc_id /\ entry.edu_id = edu_id))])

\* Entries of the snapshot with that key among the relation buckets of its
\* clusters.
SatelliteOccurrences(snapshot, doc_id, edu_id) ==
    SumSeq([c \in 1..Len(snapshot.clusters) |->
               LET buckets == snapshot.clusters[c].satellites_by_relation
               IN  SumOfLens([label \in DOMAIN buckets |->
                                 SelectSeq(buckets[label],
                                           LAMBDA entry : /\ entry.doc_id = doc_id
                                                          /\ entry.edu_id = edu_id)],
                             DOMAIN buckets)])

\* C30: once flatten, embed, cluster, attach and aggregate have all succeeded,
\* the snapshot's total_nuclei is the number of nucleus rows of the flat
\* table and its total_satellites the number of satellite rows, and every
\* (doc_id, edu_id) occurs among the nuclei of the snapshot as often as the
\* table has nucleus rows with it and among the satellites of the relation
\* buckets as often as the table has satellite rows with it: once for a row
\* with a key of its own, never for a key the table does not have.
Thm_C30_EdusConserved ==
    agg_pc = "done" =>
        LET table == edus_file[1]
            snapshot == snapshot_file[1]
        IN  /\ snapshot.counts.total_nuclei = RowsOfNuclearity(table, "nucleus")
            /\ snapshot.counts.total_satellites = RowsOfNuclearity(table, "satellite")
            /\ \A d \in {"d1", "d2"}, e \in EduIds :
                  /\ NucleusOccurrences(snapshot, d, e) = RowsWith(table, d, e, "nucleus")
                  /\ SatelliteOccurrences(snapshot, d, e) = RowsWith(table, d, e, "satellite")

\* A finished run on a table with two nuclei or more and two satellites, one
\* of them attached to the nearest centroid, on two clusters.
Wit_C30 ==
    /\ run_no = 1 /\ agg_pc = "done"
    /\ snapshot_file[1].counts.clusters = 2
    /\ snapshot_file[1].counts.total_nuclei >= 2
    /\ snapshot_file[1].counts.total_satellites = 2
    /\ \E i \in 1..Len(attach_file[1].assignments) :
          attach_file[1].assignments[i].attachment = "nearest"

====
